---- MODULE Spec2Model ----
(***************************************************************************)
(* A model of pyrepo's release command (src/pyrepo/commands/release.py):   *)
(* the Project release record, its phases, and the version arithmetic.     *)
(* Strings are sequences of one-character strings, so that the regular     *)
(* expressions and the version parser act on characters as the code does.  *)
(***************************************************************************)
EXTENDS Integers, Sequences, FiniteSets, TLC

\* ------------------------------------------------------------------------
\* Characters and decimal numbers
\* ------------------------------------------------------------------------

DigitChars == <<"0", "1", "2", "3", "4", "5", "6", "7", "8", "9">>

UpperChars ==
    <<"A", "B", "C", "D", "E", "F", "G", "H", "I", "J", "K", "L", "M",
      "N", "O", "P", "Q", "R", "S", "T", "U", "V", "W", "X", "Y", "Z">>

LowerChars ==
    <<"a", "b", "c", "d", "e", "f", "g", "h", "i", "j", "k", "l", "m",
      "n", "o", "p", "q", "r", "s", "t", "u", "v", "w", "x", "y", "z">>

Whitespace == {" ", "\t", "\n"}

Separators == {"-", "_", "."}

IsDigit(c) == \E k \in 1..10 : DigitChars[k] = c

DigitVal(c) == (CHOOSE k \in 1..10 : DigitChars[k] = c) - 1

IsLower(c) == \E k \in 1..26 : LowerChars[k] = c

IsAlnum(c) == IsDigit(c) \/ IsLower(c)

LowerChar(c) ==
    IF \E k \in 1..26 : UpperChars[k] = c
    THEN LowerChars[CHOOSE k \in 1..26 : UpperChars[k] = c]
    ELSE c

LowerStr(s) == [i \in 1..Len(s) |-> LowerChar(s[i])]

\* str(n) for a natural number n
RECURSIVE IntStr(_)
IntStr(n) ==
    IF n < 10
    THEN <<DigitChars[n + 1]>>
    ELSE IntStr(n \div 10) \o <<DigitChars[(n % 10) + 1]>>

\* int(ds) for a non-empty sequence of digits (leading zeros allowed)
RECURSIVE StrInt(_)
StrInt(ds) ==
    IF ds = <<>>
    THEN 0
    ELSE 10 * StrInt(SubSeq(ds, 1, Len(ds) - 1)) + DigitVal(ds[Len(ds)])

\* '.'.join(map(str, ns))
RECURSIVE JoinDots(_)
JoinDots(ns) ==
    IF ns = <<>> THEN <<>>
    ELSE IF Len(ns) = 1 THEN IntStr(ns[1])
    ELSE IntStr(ns[1]) \o <<".">> \o JoinDots(Tail(ns))

\* s has the literal lit at position i
HasAt(s, i, lit) ==
    /\ i >= 1
    /\ i + Len(lit) - 1 <= Len(s)
    /\ SubSeq(s, i, i + Len(lit) - 1) = lit

\* the first position >= i of s that holds no digit (Len(s) + 1 if none)
RECURSIVE DigitsEnd(_, _)
DigitsEnd(s, i) ==
    IF i <= Len(s) /\ IsDigit(s[i]) THEN DigitsEnd(s, i + 1) ELSE i

\* s.strip()
RECURSIVE StripWs(_)
StripWs(s) ==
    IF s = <<>> THEN s
    ELSE IF s[1] \in Whitespace THEN StripWs(Tail(s))
    ELSE IF s[Len(s)] \in Whitespace THEN StripWs(SubSeq(s, 1, Len(s) - 1))
    ELSE s

\* ------------------------------------------------------------------------
\* packaging.version.Version, as next_version uses it: the PEP 440 pattern
\*   v? (N!)? N(.N)* ([-_.]?(a|b|c|rc|alpha|beta|pre|preview)[-_.]?N?)?
\*   (-N | [-_.]?(post|rev|r)[-_.]?N?)? ([-_.]?dev[-_.]?N?)? (+local)?
\* matched case-insensitively between optional whitespace.
\* ------------------------------------------------------------------------

\* longest first, so that the first hit is the one the whole match needs
PreKeywords ==
    << <<"p", "r", "e", "v", "i", "e", "w">>, <<"a", "l", "p", "h", "a">>,
       <<"b", "e", "t", "a">>, <<"p", "r", "e">>, <<"r", "c">>,
       <<"a">>, <<"b">>, <<"c">> >>

PostKeywords == << <<"p", "o", "s", "t">>, <<"r", "e", "v">>, <<"r">> >>

DevKeywords == << <<"d", "e", "v">> >>

\* the first keyword of kws that s has at position i, or <<>>
KeywordAt(s, i, kws) ==
    LET hits == {k \in 1..Len(kws) : HasAt(s, i, kws[k])}
    IN  IF hits = {} THEN <<>>
        ELSE kws[CHOOSE k \in hits : \A j \in hits : k <= j]

\* the rest of a letter group, [-_.]?([0-9]+)?, from position r on
LetterNumber(s, kw, r) ==
    LET r2 == IF r <= Len(s) /\ s[r] \in Separators THEN r + 1 ELSE r
        d  == DigitsEnd(s, IF r <= Len(s) /\ s[r] \in Separators
                           THEN r + 1 ELSE r)
    IN  [found |-> TRUE, pos |-> d, kw |-> kw,
         n |-> IF d > r2 THEN StrInt(SubSeq(s, r2, d - 1)) ELSE 0]

\* a letter group whose keyword, if any, stands at position q
LetterKeyword(s, i, q, kw) ==
    IF kw = <<>>
    THEN [found |-> FALSE, pos |-> i, kw |-> <<>>, n |-> 0]
    ELSE LetterNumber(s, kw, q + Len(kw))

LetterAt(s, i, q, kws) == LetterKeyword(s, i, q, KeywordAt(s, q, kws))

\* one optional group [-_.]?(keyword)[-_.]?([0-9]+)? tried at position i
LetterGroup(s, i, kws) ==
    LetterAt(s, i, IF i <= Len(s) /\ s[i] \in Separators THEN i + 1 ELSE i,
             kws)

\* the release segment [0-9]+(\.[0-9]+)* tried at position i
RECURSIVE ReleaseGroup(_, _)
ReleaseGroup(s, i) ==
    LET d == DigitsEnd(s, i)
    IN  IF d = i
        THEN [found |-> FALSE, pos |-> i, comps |-> <<>>]
        ELSE LET n == StrInt(SubSeq(s, i, d - 1))
             IN  IF /\ d < Len(s)
                    /\ s[d] = "."
                    /\ IsDigit(s[d + 1])
                 THEN LET rest == ReleaseGroup(s, d + 1)
                      IN  [found |-> TRUE, pos |-> rest.pos,
                           comps |-> <<n>> \o rest.comps]
                 ELSE [found |-> TRUE, pos |-> d, comps |-> <<n>>]

\* the first position >= i of s that holds no letter or digit
RECURSIVE AlnumEnd(_, _)
AlnumEnd(s, i) ==
    IF i <= Len(s) /\ IsAlnum(s[i]) THEN AlnumEnd(s, i + 1) ELSE i

\* the end of [a-z0-9]+([-_.][a-z0-9]+)* tried at position i (i if no match)
RECURSIVE LocalEnd(_, _)
LocalEnd(s, i) ==
    LET d == AlnumEnd(s, i)
    IN  IF d = i THEN i
        ELSE IF d < Len(s) /\ s[d] \in Separators /\ IsAlnum(s[d + 1])
        THEN LocalEnd(s, d + 1)
        ELSE d

InvalidParse ==
    [valid |-> FALSE, epoch |-> 0, release |-> <<>>, pre |-> <<>>,
     post |-> <<>>, dev |-> <<>>, local |-> <<>>]

\* _parse_letter_version: the normal spelling of a pre-release keyword
NormalPre(kw) ==
    IF kw = <<"a", "l", "p", "h", "a">> THEN <<"a">>
    ELSE IF kw = <<"b", "e", "t", "a">> THEN <<"b">>
    ELSE IF kw \in {<<"c">>, <<"p", "r", "e">>,
                    <<"p", "r", "e", "v", "i", "e", "w">>} THEN <<"r", "c">>
    ELSE kw

\* the epoch group ([0-9]+)! tried at position i
EpochGroup(s, i) ==
    LET e == DigitsEnd(s, i)
    IN  IF e > i /\ HasAt(s, e, <<"!">>)
        THEN [found |-> TRUE, pos |-> e + 1, n |-> StrInt(SubSeq(s, i, e - 1))]
        ELSE [found |-> FALSE, pos |-> i, n |-> 0]

\* the post group tried at position i: -N, or else a letter group
PostGroup(s, i) ==
    LET d == DigitsEnd(s, i + 1)
    IN  IF HasAt(s, i, <<"-">>) /\ d > i + 1
        THEN [found |-> TRUE, pos |-> d, kw |-> <<"p", "o", "s", "t">>,
              n |-> StrInt(SubSeq(s, i + 1, d - 1))]
        ELSE LetterGroup(s, i, PostKeywords)

\* the local group \+[a-z0-9]+([-_.][a-z0-9]+)* tried at position i
LocalGroup(s, i) ==
    LET d == LocalEnd(s, i + 1)
    IN  IF HasAt(s, i, <<"+">>) /\ d > i + 1
        THEN [found |-> TRUE, pos |-> d, text |-> SubSeq(s, i + 1, d - 1)]
        ELSE [found |-> FALSE, pos |-> i, text |-> <<>>]

\* the match is a version if there was a release segment and the groups
\* took the whole string
ParseEnd(s, ep, rel, pre, post, dev, loc) ==
    IF rel.found /\ loc.pos = Len(s) + 1
    THEN [valid   |-> TRUE,
          epoch   |-> ep.n,
          release |-> rel.comps,
          pre     |-> IF pre.found THEN <<NormalPre(pre.kw), pre.n>> ELSE <<>>,
          post    |-> IF post.found THEN <<post.n>> ELSE <<>>,
          dev     |-> IF dev.found THEN <<dev.n>> ELSE <<>>,
          local   |-> loc.text]
    ELSE InvalidParse

\* the groups in the order of the pattern, each from where the last ended
ParseLocal(s, ep, rel, pre, post, dev) ==
    ParseEnd(s, ep, rel, pre, post, dev, LocalGroup(s, dev.pos))

ParseDev(s, ep, rel, pre, post) ==
    ParseLocal(s, ep, rel, pre, post, LetterGroup(s, post.pos, DevKeywords))

ParsePost(s, ep, rel, pre) == ParseDev(s, ep, rel, pre, PostGroup(s, pre.pos))

ParsePre(s, ep, rel) ==
    ParsePost(s, ep, rel, LetterGroup(s, rel.pos, PreKeywords))

ParseRelease(s, ep) == ParsePre(s, ep, ReleaseGroup(s, ep.pos))

ParseEpoch(s) ==
    ParseRelease(s, EpochGroup(s, IF HasAt(s, 1, <<"v">>) THEN 2 ELSE 1))

\* Version(v): the parsed version, or valid = FALSE where Version raises
\* InvalidVersion
Version(v) == ParseEpoch(LowerStr(StripWs(v)))

\* Version.is_prerelease
is_prerelease(vobj) == vobj.dev # <<>> \/ vobj.pre # <<>>

\* Version.base_version: the epoch and the release segment, nothing else
base_version(vobj) ==
    (IF vobj.epoch # 0 THEN IntStr(vobj.epoch) \o <<"!">> ELSE <<>>)
        \o JoinDots(vobj.release)

\* ------------------------------------------------------------------------
\* next_version (release.py:391-421)
\* ------------------------------------------------------------------------

\* vs[2:] = [0] * len(vs[2:]) after vs[1] += 1, for a list of two or more
BumpMinor(vs) ==
    [i \in 1..Len(vs) |->
        IF i = 1 THEN vs[1] ELSE IF i = 2 THEN vs[2] + 1 ELSE 0]

\* next_version from `vobj = Version(v)` on.  vs[1] += 1 indexes the second
\* release component.
next_of(vobj) ==
    IF ~vobj.valid
    THEN [ok |-> FALSE, err |-> "InvalidVersion", val |-> <<>>]
    ELSE IF is_prerelease(vobj)
    THEN [ok |-> TRUE, err |-> "", val |-> base_version(vobj)]
    ELSE IF Len(vobj.release) < 2
    THEN [ok |-> FALSE, err |-> "IndexError", val |-> <<>>]
    ELSE [ok |-> TRUE, err |-> "",
          val |-> (IF vobj.epoch # 0
                   THEN IntStr(vobj.epoch) \o <<"!">> ELSE <<>>)
                  \o JoinDots(BumpMinor(vobj.release))]

\* The outcome of next_version(v): ok with the value returned, or the error
\* raised.
next_version(v) == next_of(Version(v))

\* ------------------------------------------------------------------------
\* re.sub(r'(a|b|rc)\d+|\.dev\d+', '', version) (release.py:293)
\* ------------------------------------------------------------------------

\* the end of lit followed by \d+ at position i, or i when it is not there
LitDigitsEnd(s, i, lit) ==
    IF HasAt(s, i, lit) /\ IsDigit((s \o <<"$">>)[i + Len(lit)])
    THEN DigitsEnd(s, i + Len(lit)) ELSE i

\* the end of the match of the pattern at position i, the alternatives
\* tried in the order written, or i when the pattern does not match there
SuffixMatchEnd(s, i) ==
    IF HasAt(s, i, <<"a">>) \/ HasAt(s, i, <<"b">>)
    THEN LitDigitsEnd(s, i, <<s[i]>>)
    ELSE IF HasAt(s, i, <<"r", "c">>)
    THEN LitDigitsEnd(s, i, <<"r", "c">>)
    ELSE LitDigitsEnd(s, i, <<".", "d", "e", "v">>)

\* the rest of the pass when the match at i ends at e
RECURSIVE StripFrom(_, _)
StripAt(s, i, e) ==
    IF e > i THEN StripFrom(s, e) ELSE <<s[i]>> \o StripFrom(s, i + 1)

\* one left-to-right pass: every non-overlapping match is deleted
StripFrom(s, i) ==
    IF i > Len(s) THEN <<>> ELSE StripAt(s, i, SuffixMatchEnd(s, i))

strip_suffix(version) == StripFrom(version, 1)

\* ------------------------------------------------------------------------
\* The state: the Project record, the project directory, the git
\* repository, the GitHub repository and the two upload services
\* ------------------------------------------------------------------------

VARIABLES
    proj,       \* Project: _version, assets, assets_asc, release_upload_url
    fs,         \* the files of the project directory the release touches
    git,        \* the local git repository and what was pushed from it
    gh,         \* the GitHub repository: topics, releases, release assets
    pypi,       \* the files the package index holds
    dropbox,    \* the files the file-storage service holds
    err,        \* the exception the last call raised, "" if none
    calls,      \* the external commands and requests the last call made
    clock,      \* the day, as time.strftime and time.localtime see it
    opts,       \* the release command's options: tox, sign_assets
    pc,         \* where the release command stands
    log,        \* the phases the release command has called, in order
    last,       \* the Project method called last and the day of the call
    ncalls,     \* how many Project methods were called outside the command
    arg,        \* the version string given to next_version
    ret,        \* what next_version did with it
    api         \* a request of the GitHub client and the iterator it gave

vars ==
    <<proj, fs, git, gh, pypi, dropbox, err, calls, clock, opts, pc, log,
      last, ncalls, arg, ret, api>>

\* bounds of the model
MaxFiles == 2       \* distinct files the build tool can produce
MaxRel == 3         \* release components of a version input
MaxNum == 1         \* largest release component of a version input
MaxCalls == 3       \* Project methods called in a row outside the command
MaxOpsFiles == 1    \* files the build tool writes outside the command
MaxDevCalls == 2    \* calls of end_dev and begin_dev in a row
MaxDay == 1         \* last day the clock can reach (days count from 0)
MaxPages == 3       \* linked pages a paginated read can span
MaxItems == 2       \* elements of one page
MaxLog == 3         \* lines of a commit log given to get_commit_years

\* A value that may be missing (a file that may not exist, an attribute that
\* may not be set, Python's None) is None or Some(x); x is then its [1].
None == <<>>

Some(x) == <<x>>

SeqToSet(q) == {q[i] : i \in DOMAIN q}

Reverse(q) == [i \in DOMAIN q |-> q[Len(q) + 1 - i]]

\* the world a method acts on, and what it leaves behind
World ==
    [proj |-> proj, fs |-> fs, git |-> git, gh |-> gh, pypi |-> pypi,
     dropbox |-> dropbox, err |-> err, calls |-> calls]

Becomes(w) ==
    /\ proj' = w.proj
    /\ fs' = w.fs
    /\ git' = w.git
    /\ gh' = w.gh
    /\ pypi' = w.pypi
    /\ dropbox' = w.dropbox
    /\ err' = w.err
    /\ calls' = w.calls

\* a method is entered: nothing raised yet, nothing called yet
Enter(w) == [w EXCEPT !.err = "", !.calls = <<>>]

Raise(w, e) == [w EXCEPT !.err = e]

Called(w, c) == [w EXCEPT !.calls = Append(@, c)]

Ok(w) == w.err = ""

\* ------------------------------------------------------------------------
\* Artifacts: build, twine_check, upload
\* ------------------------------------------------------------------------

\* the paths the build tool can write: dist/<file k>
BuildFiles == {<<"dist", k>> : k \in 1..MaxFiles}

\* str(distfile) + '.asc'
AscOf(f) == Append(f, "asc")

\* os.path.basename
basename(f) == Tail(f)

AscSeq(q) == [i \in DOMAIN q |-> AscOf(q[i])]

\* the files of S with file number k and j suffixes, in that order
RECURSIVE ByName(_, _, _)
ByName(S, k, j) ==
    IF k > MaxFiles THEN <<>>
    ELSE LET here == {f \in S : f[2] = k /\ Len(f) = 2 + j}
         IN  IF \A f \in S : f[2] = k => Len(f) < 2 + j
             THEN ByName(S, k + 1, 0)
             ELSE (IF here = {} THEN <<>> ELSE <<CHOOSE f \in here : TRUE>>)
                      \o ByName(S, k, j + 1)

\* Two of the orders in which distdir.iterdir() can list the files of S:
\* by name, and the reverse.
Listings(S) == {ByName(S, 0, 0), Reverse(ByName(S, 0, 0))}

\* Project.build.  rmOk: rmtree removed dist (its errors are ignored);
\* makeOk, built: the build tool's exit and the files it wrote; order: the
\* listing of dist; signed: how many assets gpg signs before it fails
\* (Len(order) when it does not fail).
build(w, sign_assets, rmOk, makeOk, built, order, signed) ==
    LET w0   == Enter(w)
        left == IF rmOk THEN None ELSE w.fs.dist
        w1   == [w0 EXCEPT !.fs.dist = left,
                           !.proj.assets = <<>>,
                           !.proj.assets_asc = <<>>]
        w2   == Called(w1, <<"make", built>>)
        dir  == (IF left = None THEN {} ELSE left[1]) \cup built
        n    == Len(order)
        done == SubSeq(order, 1, signed)
    IN  IF ~makeOk THEN Raise(w2, "CalledProcessError")
        ELSE IF ~sign_assets
        THEN [w2 EXCEPT !.fs.dist = Some(dir), !.proj.assets = order]
        ELSE IF signed < n
        THEN Raise([w2 EXCEPT !.fs.dist =
                                  Some(dir \cup SeqToSet(AscSeq(done))),
                              !.proj.assets = SubSeq(order, 1, signed + 1),
                              !.proj.assets_asc = AscSeq(done),
                              !.calls = @ \o [i \in 1..(signed + 1) |->
                                                <<"gpg", order[i]>>]],
                   "CalledProcessError")
        ELSE [w2 EXCEPT !.fs.dist = Some(dir \cup SeqToSet(AscSeq(order))),
                        !.proj.assets = order,
                        !.proj.assets_asc = AscSeq(order),
                        !.calls = @ \o [i \in 1..n |-> <<"gpg", order[i]>>]]

\* twine_check without its assertion
twine_check_unasserted(w, checkOk) ==
    IF ~checkOk
    THEN Raise(Called(Enter(w), <<"twine check", w.proj.assets, 1>>),
               "CalledProcessError")
    ELSE Called(Enter(w), <<"twine check", w.proj.assets, 0>>)

\* Project.twine_check.  checkOk: the exit of `twine check`, kept with the
\* call as its exit status.
twine_check(w, checkOk) ==
    LET w0 == Enter(w)
        w1 == Called(w0, <<"twine check", w.proj.assets,
                           IF checkOk THEN 0 ELSE 1>>)
    IN  IF w.proj.assets = <<>> THEN Raise(w0, "AssertionError")
        ELSE IF ~checkOk THEN Raise(w1, "CalledProcessError")
        ELSE w1

\* Project.tox_check.  toxOk: the exit of tox.
tox_check(w, toxOk) ==
    LET w0 == Enter(w)
        w1 == Called(w0, <<"tox">>)
    IN  IF ~w.fs.toxIni THEN w0
        ELSE IF ~toxOk THEN Raise(w1, "CalledProcessError")
        ELSE w1

\* Project.upload_pypi, without the reset a direct call starts with.
\* sent: how many files twine transfers before it fails (all when it does
\* not); a file the index already holds is skipped.
pypi_step(w, sent) ==
    LET files == w.proj.assets \o w.proj.assets_asc
        w1    == Called(w, <<"twine upload", files>>)
        w2    == [w1 EXCEPT !.pypi =
                     @ \cup SeqToSet(SubSeq(files, 1, sent))]
    IN  IF ~Ok(w) THEN w
        ELSE IF sent < Len(files) THEN Raise(w2, "CalledProcessError")
        ELSE w2

upload_pypi(w, sent) == pypi_step(Enter(w), sent)

\* dropbox_step, sending the assets without their signatures
dropbox_assets_only(w, sent) ==
    IF ~Ok(w) THEN w
    ELSE IF sent < Len(w.proj.assets) + Len(w.proj.assets_asc)
    THEN Raise(Called(w, <<"dropbox_uploader upload", w.proj.assets>>),
               "CalledProcessError")
    ELSE [Called(w, <<"dropbox_uploader upload", w.proj.assets>>)
             EXCEPT !.dropbox = @ \cup SeqToSet(w.proj.assets)]

\* Project.upload_dropbox; sent as for upload_pypi
dropbox_step(w, sent) ==
    LET files == w.proj.assets \o w.proj.assets_asc
        w1    == Called(w, <<"dropbox_uploader upload", files>>)
        w2    == [w1 EXCEPT !.dropbox =
                     @ \cup SeqToSet(SubSeq(files, 1, sent))]
    IN  IF ~Ok(w) THEN w
        ELSE IF sent < Len(files) THEN Raise(w2, "CalledProcessError")
        ELSE w2

upload_dropbox(w, sent) == dropbox_step(Enter(w), sent)

\* the assets of the release an upload URL belongs to
ReleaseAssets(w, url) == {a[2] : a \in {b \in w.gh.relAssets : b[1] = url}}

\* one pass of the loop of upload_github over assets[i..]: open the file,
\* post it.  posted: how many posts the server accepts before one fails.
RECURSIVE post_assets(_, _, _)
post_assets(w, i, posted) ==
    IF ~Ok(w) \/ i > Len(w.proj.assets) THEN w
    ELSE LET asset == w.proj.assets[i]
             url   == w.proj.release_upload_url[1]
             name  == basename(asset)
             w1    == Called(w, <<"POST", url, name>>)
         IN  IF w.fs.dist = None \/ asset \notin w.fs.dist[1]
             THEN Raise(w, "FileNotFoundError")
             ELSE IF i > posted \/ name \in ReleaseAssets(w, url)
             THEN Raise(w1, "GitHubException")
             ELSE post_assets(
                      [w1 EXCEPT !.gh.relAssets = @ \cup {<<url, name>>}],
                      i + 1, posted)

\* Project.upload_github, without the reset
github_step(w, posted) ==
    IF ~Ok(w) THEN w
    ELSE IF w.proj.release_upload_url = None
    THEN Raise(w, "AssertionError")
    ELSE post_assets(w, 1, posted)

upload_github(w, posted) == github_step(Enter(w), posted)

\* Project.upload, had it looked for the upload URL before sending anything
upload_checking_first(w, sentPypi, sentDropbox, posted) ==
    IF w.proj.assets = <<>> \/ w.proj.release_upload_url = None
    THEN Raise(Enter(w), "AssertionError")
    ELSE github_step(
             dropbox_step(pypi_step(Enter(w), sentPypi), sentDropbox), posted)

\* Project.upload
upload(w, sentPypi, sentDropbox, posted) ==
    LET w0 == Enter(w)
    IN  IF w.proj.assets = <<>> THEN Raise(w0, "AssertionError")
        ELSE github_step(dropbox_step(pypi_step(w0, sentPypi), sentDropbox),
                         posted)

\* ------------------------------------------------------------------------
\* The version-declaration file and the changelog store
\* ------------------------------------------------------------------------

\* repr(version) of a string without quotes in it
repr(v) == <<"'">> \o v \o <<"'">>

\* The version setter, as a step.  A line matching ^__version__\s*= keeps
\* its left side and gets repr(version); every other line is written back.
\* setOk: whether the in-place edit of initfile went through.
set_version(w, version, setOk) ==
    IF ~Ok(w) THEN w
    ELSE IF ~setOk THEN Raise(w, "OSError")
    ELSE [w EXCEPT
            !.fs.initfile =
                [i \in DOMAIN @ |->
                    IF @[i][1] = "__version__"
                    THEN <<"__version__", repr(version)>>
                    ELSE @[i]],
            !.proj.version = version]

CHANGELOG_NAMES == <<"CHANGELOG.md", "CHANGELOG.rst">>

DocsChangelog == <<"docs/changelog.rst">>

ChangelogPaths == SeqToSet(CHANGELOG_NAMES) \cup SeqToSet(DocsChangelog)

changelog_paths(docs) == IF docs THEN DocsChangelog ELSE CHANGELOG_NAMES

\* what a write that failed half way leaves in the file
PartialFile == <<"partial">>

EmptyChangelog == [intro |-> "", sections |-> <<>>]

\* Changelog.save and Changelog.load: the text of a document, and the
\* document of a text
ChangelogSave(doc) == <<"changelog", doc>>

ChangelogLoad(text) ==
    IF text = PartialFile THEN EmptyChangelog ELSE text[2]

\* the text of the file at path, None if there is no such file
ChangelogFile(fsys, path) == fsys.chlog[path]

\* the first of the paths that exists in the directory, 0 if none does
FirstExisting(fsys, paths) ==
    LET ex == {i \in DOMAIN paths : ChangelogFile(fsys, paths[i]) # None}
    IN  IF ex = {} THEN 0 ELSE CHOOSE i \in ex : \A j \in ex : i <= j

\* Project.get_changelog
get_changelog(fsys, docs) ==
    LET paths == changelog_paths(docs)
        i     == FirstExisting(fsys, paths)
    IN  IF i = 0 THEN None
        ELSE Some(ChangelogLoad(ChangelogFile(fsys, paths[i])[1]))

\* fpath.open('w') and value.save(fp).  wr: "ok", "open" (the file could
\* not be opened) or "save" (the write failed after the file was truncated)
write_changelog(w, path, value, wr) ==
    IF wr = "open" \/ (path \in SeqToSet(DocsChangelog) /\ ~w.fs.docsDir)
    THEN Raise(w, "OSError")
    ELSE IF wr = "save"
    THEN Raise([w EXCEPT !.fs.chlog[path] = Some(PartialFile)], "OSError")
    ELSE [w EXCEPT !.fs.chlog[path] = Some(ChangelogSave(value[1]))]

\* set_changelog, the write going to the candidate of highest priority
\* whether it exists or not
set_changelog_unsought(w, value, docs, wr) ==
    IF ~Ok(w) THEN w
    ELSE IF value # None
    THEN write_changelog(w, changelog_paths(docs)[1], value, wr)
    ELSE IF FirstExisting(w.fs, changelog_paths(docs)) # 0
    THEN [w EXCEPT !.fs.chlog[changelog_paths(docs)[
                        FirstExisting(w.fs, changelog_paths(docs))]] = None]
    ELSE w

\* set_changelog, had None removed every candidate of the variant
set_changelog_clearing(w, value, docs, wr) ==
    IF ~Ok(w) THEN w
    ELSE IF value = None
    THEN [w EXCEPT !.fs.chlog =
             [p \in DOMAIN @ |->
                 IF p \in SeqToSet(changelog_paths(docs)) THEN None ELSE @[p]]]
    ELSE write_changelog(
             w,
             changelog_paths(docs)[
                 IF FirstExisting(w.fs, changelog_paths(docs)) = 0 THEN 1
                 ELSE FirstExisting(w.fs, changelog_paths(docs))],
             value, wr)

\* Project.set_changelog, as a step
set_changelog(w, value, docs, wr) ==
    LET paths == changelog_paths(docs)
        i     == FirstExisting(w.fs, paths)
    IN  IF ~Ok(w) THEN w
        ELSE IF i # 0
        THEN IF value = None
             THEN [w EXCEPT !.fs.chlog[paths[i]] = None]
             ELSE write_changelog(w, paths[i], value, wr)
        ELSE IF value # None
        THEN write_changelog(w, paths[1], value, wr)
        ELSE w

\* `chlog and chlog.sections`
HasSections(chlog) == chlog # None /\ chlog[1].sections # <<>>

\* ------------------------------------------------------------------------
\* The clock, the commit years, the year ranges
\* ------------------------------------------------------------------------

BaseYear == 2019

\* two days to a year, so that a day can pass without the year passing
YearOf(day) == BaseYear + (day \div 2)

\* today(): time.strftime('%Y-%m-%d')
today(day) == <<"date", day>>

\* the members of a set of numbers in ascending order
RECURSIVE SortedSeq(_)
SortedSeq(S) ==
    IF S = {} THEN <<>>
    ELSE LET m == CHOOSE x \in S : \A y \in S : x <= y
         IN  <<m>> \o SortedSeq(S \ {m})

\* the years on the lines that git log --format=%ad --date=format:%Y prints
log_years(gitoutput) == {StrInt(gitoutput[i]) : i \in DOMAIN gitoutput}

\* get_commit_years, had it returned the years line by line as the log has
\* them
commit_years_as_logged(gitoutput, include_now, day) ==
    [years |-> [i \in DOMAIN gitoutput |-> StrInt(gitoutput[i])]
                   \o (IF include_now THEN <<YearOf(day)>> ELSE <<>>),
     reads |-> IF include_now THEN 1 ELSE 0]

\* get_commit_years(dirpath, include_now) on the output of git log: the
\* years of the log, with this year when include_now, in ascending order;
\* reads: the calls of time.localtime it makes
commit_years(gitoutput, include_now, day) ==
    [years |-> SortedSeq(log_years(gitoutput)
                             \cup (IF include_now THEN {YearOf(day)} ELSE {})),
     reads |-> IF include_now THEN 1 ELSE 0]

\* what git log prints in a repository with commits in the years given
GitLog(years) ==
    [i \in 1..Cardinality(years) |-> IntStr(Reverse(SortedSeq(years))[i])]

\* get_commit_years(directory): the years of the commit log and this year
get_commit_years(w, day) == commit_years(GitLog(w.git.years), TRUE, day).years

\* ensure_license_years and update_years2str: the years of the line and
\* the years given
update_years(old, years) == old \cup SeqToSet(years)

\* ------------------------------------------------------------------------
\* end_dev, end_initial_dev, update_gh_topics
\* ------------------------------------------------------------------------

\* the PUT of update_gh_topics, had it been made whatever the topics
put_topics_always(w, new_topics, fail) ==
    IF fail = "put"
    THEN Raise(Called(w, <<"PUT", "topics", new_topics>>), "GitHubException")
    ELSE [Called(w, <<"PUT", "topics", new_topics>>)
             EXCEPT !.gh.topics = new_topics]

\* the PUT of update_gh_topics, made when the topics change
put_topics(w, new_topics, fail) ==
    IF new_topics = w.gh.topics THEN w
    ELSE IF fail = "put"
    THEN Raise(Called(w, <<"PUT", "topics", new_topics>>), "GitHubException")
    ELSE [Called(w, <<"PUT", "topics", new_topics>>)
             EXCEPT !.gh.topics = new_topics]

\* Project.update_gh_topics, as a step.  fail: the step of the calling
\* method that fails, "get" and "put" being the two requests made here.
update_gh_topics(w, add, remove, fail) ==
    IF ~Ok(w) THEN w
    ELSE IF fail = "get"
    THEN Raise(Called(w, <<"GET", "topics">>), "GitHubException")
    ELSE put_topics(Called(w, <<"GET", "topics">>),
                    (w.gh.topics \cup add) \ remove, fail)

\* the README paragraphs written back: the wip badge becomes ACTIVE_BADGE
advance_badge(paras) ==
    [i \in DOMAIN paras |-> IF paras[i] = "wip" THEN "active" ELSE paras[i]]

\* the setup.cfg lines written back from line i on: the Development Status
\* lines 1-3 are dropped, the first of the lines 4-7 loses its '#'
RECURSIVE advance_classifiers(_, _, _)
advance_classifiers(lines, i, matched) ==
    IF i > Len(lines) THEN <<>>
    ELSE LET line == lines[i]
         IN  IF line.status \in 1..3
             THEN advance_classifiers(lines, i + 1, matched)
             ELSE IF line.status \in 4..7 /\ ~matched
             THEN <<[line EXCEPT !.commented = FALSE]>>
                      \o advance_classifiers(lines, i + 1, TRUE)
             ELSE <<line>> \o advance_classifiers(lines, i + 1, matched)

\* the in-place edit of README.rst
readme_step(w, fail) ==
    IF ~Ok(w) THEN w
    ELSE IF fail = "readme" \/ w.fs.readme = None THEN Raise(w, "OSError")
    ELSE [w EXCEPT !.fs.readme = Some(advance_badge(@[1]))]

\* the in-place edit of setup.cfg
setupcfg_step(w, fail) ==
    IF ~Ok(w) THEN w
    ELSE IF fail = "setupcfg" \/ w.fs.setupCfg = None THEN Raise(w, "OSError")
    ELSE [w EXCEPT !.fs.setupCfg = Some(advance_classifiers(@[1], 1, FALSE))]

\* Project.end_initial_dev, as a step
end_initial_dev(w, fail) ==
    update_gh_topics(setupcfg_step(readme_step(w, fail), fail),
                     {"available-on-pypi"}, {"work-in-progress"}, fail)

\* how the write of one changelog variant ends when step `fail` fails
write_outcome(fail, docs) ==
    IF fail = (IF docs THEN "open_docs" ELSE "open_root") THEN "open"
    ELSE IF fail = (IF docs THEN "save_docs" ELSE "save_root") THEN "save"
    ELSE "ok"

\* chlog.sections[0].date = today(); self.set_changelog(chlog, docs=docs)
date_sections(w, chlog, docs, day, fail) ==
    IF HasSections(chlog)
    THEN set_changelog(w, [chlog EXCEPT ![1].sections[1].date = today(day)],
                       docs, write_outcome(fail, docs))
    ELSE w

\* the loop body of end_dev for one changelog variant
date_changelog(w, docs, day, fail) ==
    IF ~Ok(w) THEN w
    ELSE date_sections(w, get_changelog(w.fs, docs), docs, day, fail)

\* years = get_commit_years(self.directory): git log is run
log_step(w, fail) ==
    IF ~Ok(w) THEN w
    ELSE IF fail = "log"
    THEN Raise(Called(w, <<"git log">>), "CalledProcessError")
    ELSE Called(w, <<"git log">>)

\* ensure_license_years(self.directory / 'LICENSE', years)
license_step(w, years, fail) ==
    IF ~Ok(w) THEN w
    ELSE IF fail = "license" \/ w.fs.license = None THEN Raise(w, "OSError")
    ELSE [w EXCEPT !.fs.license = Some(update_years(@[1], years))]

\* the copyright line of docs/conf.py, if the file exists
conf_step(w, years, fail) ==
    IF ~Ok(w) \/ w.fs.docsConf = None THEN w
    ELSE IF fail = "conf" THEN Raise(w, "OSError")
    ELSE [w EXCEPT !.fs.docsConf = Some(update_years(@[1], years))]

\* initial_step, run whether there is a changelog or not
initial_step_always(w, fail) ==
    IF Ok(w) THEN end_initial_dev(w, fail) ELSE w

\* if self.get_changelog() is None: self.end_initial_dev()
initial_step(w, fail) ==
    IF Ok(w) /\ get_changelog(w.fs, FALSE) = None
    THEN end_initial_dev(w, fail)
    ELSE w

\* Project.end_dev.  day: the clock; fail: the step that fails, "none" if
\* none does.
end_dev(w, day, fail) ==
    initial_step(
        conf_step(
            license_step(
                log_step(
                    date_changelog(
                        date_changelog(
                            set_version(Enter(w), strip_suffix(w.proj.version),
                                        fail # "version"),
                            FALSE, day, fail),
                        TRUE, day, fail),
                    fail),
                get_commit_years(w, day), fail),
            get_commit_years(w, day), fail),
        fail)

\* ------------------------------------------------------------------------
\* commit_version, mkghrelease, begin_dev
\* ------------------------------------------------------------------------

\* 'v' + version
TagName(version) == <<"v">> \o version

\* the tag of that name, as a set of none or one
TagsNamed(w, name) == {t \in w.git.tags : t.name = name}

\* the commit message template written for `git commit --template`
commit_template(w, chlog) ==
    [subject |-> TagName(w.proj.version),
     changelog |-> IF HasSections(chlog)
                   THEN Some(chlog[1].sections[1].content) ELSE None]

\* git commit -a -v --template
commit_step(w, fail) ==
    IF fail = "commit"
    THEN Raise(Called(w, <<"git commit">>), "CalledProcessError")
    ELSE [Called(w, <<"git commit">>) EXCEPT
             !.git.commits =
                 Append(@, [template |->
                                commit_template(w, get_changelog(w.fs, FALSE)),
                            initfile |-> w.fs.initfile])]

\* git tag -s -m 'Version <version>' v<version>; git refuses a taken name
tag_step(w, fail) ==
    IF ~Ok(w) THEN w
    ELSE IF fail = "tag" \/ TagsNamed(w, TagName(w.proj.version)) # {}
    THEN Raise(Called(w, <<"git tag", TagName(w.proj.version)>>),
               "CalledProcessError")
    ELSE [Called(w, <<"git tag", TagName(w.proj.version)>>) EXCEPT
             !.git.tags = @ \cup {[name |-> TagName(w.proj.version),
                                   message |-> <<"Version ">> \o w.proj.version,
                                   commit |-> Len(w.git.commits)]}]

\* git push --follow-tags
push_step(w, fail) ==
    IF ~Ok(w) THEN w
    ELSE IF fail = "push"
    THEN Raise(Called(w, <<"git push">>), "CalledProcessError")
    ELSE [Called(w, <<"git push">>) EXCEPT
             !.git.pushed = [commits |-> Len(w.git.commits),
                             tags |-> w.git.tags]]

\* commit_version, had it pushed before tagging
commit_version_pushing_first(w, fail) ==
    tag_step(push_step(commit_step(Enter(w), fail), fail), fail)

\* Project.commit_version.  fail: "commit", "tag", "push" or "none".
commit_version(w, fail) ==
    push_step(tag_step(commit_step(Enter(w), fail), fail), fail)

\* post_release, with release_upload_url assigned before the request is made
post_release_presets(w, name, fail) ==
    IF ~Ok(w) THEN w
    ELSE IF \/ fail = "post"
            \/ \E i \in DOMAIN w.gh.releases : w.gh.releases[i].tag_name = name
    THEN Raise([Called(w, <<"POST", "releases", name>>) EXCEPT
                   !.proj.release_upload_url =
                       Some(<<"upload_url", Len(w.gh.releases) + 1>>)],
               "GitHubException")
    ELSE [Called(w, <<"POST", "releases", name>>) EXCEPT
             !.gh.releases =
                 Append(@, [tag_name |-> name,
                            commit |-> (CHOOSE t \in TagsNamed(w, name) : TRUE).commit,
                            draft |-> FALSE]),
             !.proj.release_upload_url =
                 Some(<<"upload_url", Len(w.gh.releases) + 1>>)]

\* self.ghrepo.releases.post(...) and the assignment of release_upload_url;
\* GitHub refuses a second release of a tag
post_release(w, name, fail) ==
    IF ~Ok(w) THEN w
    ELSE IF \/ fail = "post"
            \/ \E i \in DOMAIN w.gh.releases : w.gh.releases[i].tag_name = name
    THEN Raise(Called(w, <<"POST", "releases", name>>), "GitHubException")
    ELSE [Called(w, <<"POST", "releases", name>>) EXCEPT
             !.gh.releases =
                 Append(@, [tag_name |-> name,
                            commit |-> (CHOOSE t \in TagsNamed(w, name) : TRUE).commit,
                            draft |-> FALSE]),
             !.proj.release_upload_url =
                 Some(<<"upload_url", Len(w.gh.releases) + 1>>)]

\* git show -s v<version>^{commit}, which fails on a tag that does not exist
show_step(w, name, fail) ==
    IF fail = "show" \/ TagsNamed(w, name) = {}
    THEN Raise(Called(w, <<"git show", name>>), "CalledProcessError")
    ELSE Called(w, <<"git show", name>>)

\* Project.mkghrelease.  fail: "show", "post" or "none".
mkghrelease(w, fail) ==
    post_release(show_step(Enter(w), TagName(w.proj.version), fail),
                 TagName(w.proj.version), fail)

\* with_new_section, the new section put after the sections there are
with_new_section_last(chlog, docs, new_sect, old_version, day) ==
    IF HasSections(chlog)
    THEN [chlog[1] EXCEPT !.sections = @ \o <<new_sect>>]
    ELSE [intro |-> IF docs THEN "Changelog\n=========\n\n" ELSE "",
          sections |-> <<[version |-> TagName(old_version),
                          date |-> today(day),
                          content |-> "Initial release"],
                         new_sect>>]

\* the changelog begin_dev writes for one variant
with_new_section(chlog, docs, new_sect, old_version, day) ==
    IF HasSections(chlog)
    THEN [chlog[1] EXCEPT !.sections = <<new_sect>> \o @]
    ELSE [intro |-> IF docs THEN "Changelog\n=========\n\n" ELSE "",
          sections |-> <<new_sect,
                         [version |-> TagName(old_version),
                          date |-> today(day),
                          content |-> "Initial release"]>>]

\* the loop body of begin_dev for one changelog variant
add_section(w, docs, new_sect, old_version, day, fail) ==
    IF ~Ok(w) \/ (docs /\ ~w.fs.docsDir) THEN w
    ELSE set_changelog(
             w,
             Some(with_new_section(get_changelog(w.fs, docs), docs, new_sect,
                                   old_version, day)),
             docs, write_outcome(fail, docs))

\* the section begin_dev adds for the version new_version
NewSection(new_version) ==
    [version |-> TagName(new_version), date |-> <<"in development">>,
     content |-> ""]

\* begin_dev from `new_version = next_version(old_version)` on, nv being
\* what next_version did
begin_with(w, old_version, nv, day, fail) ==
    IF ~nv.ok THEN Raise(w, nv.err)
    ELSE add_section(
             add_section(
                 set_version(w, nv.val \o <<".", "d", "e", "v", "1">>,
                             fail # "version"),
                 FALSE, NewSection(nv.val), old_version, day, fail),
             TRUE, NewSection(nv.val), old_version, day, fail)

\* Project.begin_dev.  fail: "version", "open_root", "save_root",
\* "open_docs", "save_docs" or "none".
begin_dev(w, day, fail) ==
    begin_with(Enter(w), w.proj.version, next_version(w.proj.version), day, fail)

\* ------------------------------------------------------------------------
\* The projects the command is run on
\* ------------------------------------------------------------------------

\* the release segments of up to MaxRel components, each at most MaxNum
RECURSIVE Releases(_)
Releases(n) ==
    IF n = 0 THEN {<<>>}
    ELSE LET shorter == Releases(n - 1)
         IN  shorter \cup {Append(r, k) : r \in {q \in shorter : Len(q) = n - 1},
                                          k \in 0..MaxNum}

EpochForms == {<<>>, <<"1", "!">>}

PreForms ==
    {<<>>, <<"a", "1">>, <<"r", "c", "2">>, <<".", "a", "1">>, <<"c", "1">>,
     <<"b">>}

PostForms == {<<>>, <<".", "p", "o", "s", "t", "1">>}

DevForms ==
    {<<>>, <<".", "d", "e", "v", "1">>, <<"d", "e", "v", "1">>,
     <<".", "d", "e", "v">>}

TailForms == {<<>>, <<"+", "x">>, <<".">>}

\* the version strings the model is run on: valid ones in normal and in
\* other spellings, and invalid ones (the empty release, the tail ".")
VersionInputs ==
    {e \o JoinDots(r) \o a \o b \o c \o t :
        e \in EpochForms, r \in Releases(MaxRel), a \in PreForms,
        b \in PostForms, c \in DevForms, t \in TailForms}

\* the versions the whole command is run on
RunVersions ==
    {<<"0", ".", "1", ".", "d", "e", "v", "1">>,
     <<"0", ".", "1", ".", "0">>,
     <<"1", "!", "0", ".", "1", "a", "1">>,
     <<"1">>,
     <<"0", ".", "1", "c", "1">>,
     <<"0", ".", "1", ".", "p", "o", "s", "t", "1", "d", "e", "v", "1">>}

\* __init__.py with its __version__ line
Initfile(v) ==
    << <<"doc", <<>> >>, <<"__version__", repr(v)>>, <<"all", <<>> >> >>

Section(v, d, c) == [version |-> v, date |-> d, content |-> c]

DevSection == Section(<<"v", "n", "e", "x", "t">>, <<"in development">>, "notes")

OldSection == Section(<<"v", "0">>, today(0), "Initial release")

RootDoc == [intro |-> "", sections |-> <<DevSection, OldSection>>]

DocsDoc == [intro |-> "Changelog\n=========\n\n", sections |-> <<DevSection>>]

File(doc) == Some(ChangelogSave(doc))

NoChangelogs == [p \in ChangelogPaths |-> None]

\* the layouts of the project directory: which changelogs and docs exist
Layouts ==
    [fresh    |-> [chlog |-> NoChangelogs, docsDir |-> FALSE],
     freshdoc |-> [chlog |-> NoChangelogs, docsDir |-> TRUE],
     md       |-> [chlog |-> [NoChangelogs EXCEPT !["CHANGELOG.md"] = File(RootDoc)],
                   docsDir |-> FALSE],
     rst      |-> [chlog |-> [NoChangelogs EXCEPT !["CHANGELOG.rst"] = File(RootDoc)],
                   docsDir |-> TRUE],
     both     |-> [chlog |-> [NoChangelogs EXCEPT
                                 !["CHANGELOG.md"] = File(RootDoc),
                                 !["CHANGELOG.rst"] = File(DocsDoc)],
                   docsDir |-> FALSE],
     docs     |-> [chlog |-> [NoChangelogs EXCEPT
                                 !["CHANGELOG.md"] = File(RootDoc),
                                 !["docs/changelog.rst"] = File(DocsDoc)],
                   docsDir |-> TRUE],
     docsonly |-> [chlog |-> [NoChangelogs EXCEPT
                                 !["docs/changelog.rst"] = File(DocsDoc)],
                   docsDir |-> TRUE],
     empty    |-> [chlog |-> [NoChangelogs EXCEPT
                                 !["CHANGELOG.md"] = File(EmptyChangelog)],
                   docsDir |-> FALSE]]

StatusLine(n, c) == [status |-> n, commented |-> c]

SetupCfg ==
    <<StatusLine(0, FALSE), StatusLine(3, FALSE), StatusLine(4, TRUE),
      StatusLine(5, TRUE), StatusLine(0, FALSE)>>

Readme == <<"text", "wip", "text">>

\* the file an earlier release left in dist
StaleFile == <<"dist", 0>>

\* the commit and the tag an earlier commit_version of version v left
TaggedCommit(v) ==
    [template |-> [subject |-> TagName(v), changelog |-> None],
     initfile |-> Initfile(v)]

TagOf(v) ==
    [name |-> TagName(v), message |-> <<"Version ">> \o v, commit |-> 1]

\* the state a new Project finds: a project at version v in a directory with
\* the changelogs and the docs directory of dir, the topics given, with or
\* without tox.ini, dist as given, and the version tagged already or not
InitDir(v, dir, topics, tox_ini, dist, tagged) ==
    /\ proj = [version |-> v, assets |-> <<>>, assets_asc |-> <<>>,
               release_upload_url |-> None]
    /\ fs = [initfile |-> Initfile(v),
             chlog    |-> dir.chlog,
             docsDir  |-> dir.docsDir,
             docsConf |-> IF dir.docsDir
                          THEN Some({BaseYear - 1}) ELSE None,
             license  |-> Some({BaseYear - 1}),
             readme   |-> Some(Readme),
             setupCfg |-> Some(SetupCfg),
             toxIni   |-> tox_ini,
             dist     |-> dist]
    /\ git = [years |-> {BaseYear - 1},
              commits |-> IF tagged THEN <<TaggedCommit(v)>> ELSE <<>>,
              tags |-> IF tagged THEN {TagOf(v)} ELSE {},
              pushed |-> [commits |-> 0, tags |-> {}]]
    /\ gh = [topics |-> topics, releases |-> <<>>, relAssets |-> {}]
    /\ pypi = {}
    /\ dropbox = {}
    /\ err = ""
    /\ calls = <<>>
    /\ clock = 0
    /\ log = <<>>
    /\ last = [name |-> "", day |-> 0]
    /\ ncalls = 0

\* InitDir for the layout named
InitRepo(v, layout, topics, tox_ini, dist, tagged) ==
    InitDir(v, Layouts[layout], topics, tox_ini, dist, tagged)

\* the state the command finds: nothing of version v is committed yet
InitWorld(v, layout, topics, tox_ini, dist) ==
    InitRepo(v, layout, topics, tox_ini, dist, FALSE)

\* ------------------------------------------------------------------------
\* The GitHub client (gh.py): GitHub.__call__, GitHubException, paginate
\* ------------------------------------------------------------------------

\* a response: its status code and its JSON body, None when the body is
\* not JSON
Response(status, body) == [status |-> status, body |-> body]

\* page k of a listing, with n elements, each told apart by page and place
Page(k, n) == Response(200, Some([i \in 1..n |-> <<k, i>>]))

\* what the server can answer when page k is requested
Responses(k) ==
    {Page(k, n) : n \in 0..MaxItems}
        \cup {Response(204, None), Response(304, None),
              Response(404, Some(<<"Not Found">>))}

\* the answers behind one URL: each page but the last links to the next
Servers ==
    UNION {{pages \in [1..n -> UNION {Responses(k) : k \in 1..n}] :
               \A k \in 1..n : pages[k] \in Responses(k)} : n \in 1..MaxPages}

\* the _method of a GitHub instance; the base instance has none
Methods == {None, Some("get"), Some("GET"), Some("post")}

\* str.lower on the methods above
lower(m) == IF m = "GET" THEN "get" ELSE m

\* requests.Response.ok is False exactly when raise_for_status raises, that
\* is for the statuses from 400 to 599
response_ok(r) == ~(400 <= r.status /\ r.status < 600)

\* requests.Response.links of page k: the page its "next" link leads to
links(pages, k) == IF k < Len(pages) THEN Some(k + 1) ELSE None

\* what a call or a step of the iterator gave: a returned value or an
\* exception, by its kind
Gave(kind, val) == [kind |-> kind, val |-> val]

GitHubException(response) == Gave("GitHubException", response)

\* r.json(): the parsed body, or requests' JSONDecodeError
json(r) ==
    IF r.body = None THEN Gave("JSONDecodeError", <<>>)
    ELSE Gave("json", r.body)

\* no request made and no iterator
NoClient ==
    [pages |-> <<>>, method |-> None, raw |-> FALSE, requests |-> 0,
     result |-> Gave("none", <<>>), page |-> 0, pos |-> 0, at |-> "none",
     out |-> <<>>, raised |-> Gave("none", <<>>)]

\* the client before the call of method `method` on the URL that `pages`
\* answers
Client(pages, method, raw) ==
    [NoClient EXCEPT !.pages = pages, !.method = method, !.raw = raw]

\* what GitHub.__call__ does with the response to its request
respond(a) ==
    IF a.raw THEN [a EXCEPT !.result = Gave("response", a.pages[1])]
    ELSE IF ~response_ok(a.pages[1])
        THEN [a EXCEPT !.result = GitHubException(a.pages[1])]
    ELSE IF lower(a.method[1]) = "get" /\ links(a.pages, 1) # None
        THEN [a EXCEPT !.result = Gave("iterator", <<>>), !.at = "start"]
    ELSE IF a.pages[1].status = 204
        THEN [a EXCEPT !.result = Gave("json", None)]
    ELSE [a EXCEPT !.result = json(a.pages[1])]

\* GitHub.__call__(raw=a.raw)
GitHub_call(a) ==
    IF a.method = None THEN [a EXCEPT !.result = Gave("ValueError", <<>>)]
    ELSE respond([a EXCEPT !.requests = @ + 1, !.page = 1])

\* paginate: the URL of the next page, None after the last
next_url(pages, k) == links(pages, k)

RECURSIVE paginate_page(_)
RECURSIVE paginate_yield(_)

\* paginate at the top of its loop, r being page a.page
paginate_page(a) ==
    IF ~response_ok(a.pages[a.page])
        THEN [a EXCEPT !.at = "raised",
                       !.raised = GitHubException(a.pages[a.page])]
    ELSE IF json(a.pages[a.page]).kind # "json"
        THEN [a EXCEPT !.at = "raised", !.raised = json(a.pages[a.page])]
    ELSE paginate_yield(a)

\* paginate, had it requested the next page on yielding the last element of
\* a page
paginate_prefetching(a) ==
    IF a.pos < Len(a.pages[a.page].body[1])
        THEN [a EXCEPT !.pos = @ + 1, !.at = "yield",
                       !.out = Append(@, a.pages[a.page].body[1][a.pos + 1]),
                       !.requests =
                           IF a.pos + 1 = Len(a.pages[a.page].body[1])
                              /\ next_url(a.pages, a.page) # None
                           THEN @ + 1 ELSE @]
    ELSE IF next_url(a.pages, a.page) = None THEN [a EXCEPT !.at = "done"]
    ELSE paginate_page([a EXCEPT !.page = next_url(a.pages, a.page)[1],
                                 !.pos = 0,
                                 !.requests = IF a.pos = 0 THEN @ + 1 ELSE @])

\* paginate inside `yield from r.json()`, a.pos elements of the page given:
\* the next element is yielded, or the page is used up and the next one is
\* requested, or there is no next one and the iterator ends
paginate_yield(a) ==
    IF a.pos < Len(a.pages[a.page].body[1])
        THEN [a EXCEPT !.pos = @ + 1, !.at = "yield",
                       !.out = Append(@, a.pages[a.page].body[1][a.pos + 1])]
    ELSE IF next_url(a.pages, a.page) = None THEN [a EXCEPT !.at = "done"]
    ELSE paginate_page([a EXCEPT !.page = next_url(a.pages, a.page)[1],
                                 !.pos = 0, !.requests = @ + 1])

\* next() on the iterator paginate returned: the generator runs to its next
\* yield; one that ended, raised or was closed only raises StopIteration
generator_next(a) ==
    IF a.at = "start" THEN paginate_page(a)
    ELSE IF a.at = "yield" THEN paginate_yield(a)
    ELSE a

\* close() on the iterator, as when its consumer stops and drops it
generator_close(a) ==
    IF a.at \in {"start", "yield"} THEN [a EXCEPT !.at = "closed"] ELSE a

\* ------------------------------------------------------------------------
\* The mkgithub command (commands/mkgithub.py)
\* ------------------------------------------------------------------------

RECURSIVE sub_dashes(_, _)

\* re.sub(r"[^a-z0-9]+", "-", s) from place i on
sub_dashes(s, i) ==
    IF i > Len(s) THEN <<>>
    ELSE IF IsAlnum(s[i]) THEN <<s[i]>> \o sub_dashes(s, i + 1)
    ELSE IF i > 1 /\ ~IsAlnum(s[i - 1]) THEN sub_dashes(s, i + 1)
    ELSE <<"-">> \o sub_dashes(s, i + 1)

PythonTopic == <<"p", "y", "t", "h", "o", "n">>

\* the topics made of the project's keywords
keywords(kws) ==
    IF \E i \in DOMAIN kws : sub_dashes(LowerStr(kws[i]), 1) = PythonTopic
    THEN [i \in DOMAIN kws |-> sub_dashes(LowerStr(kws[i]), 1)]
    ELSE Append([i \in DOMAIN kws |-> sub_dashes(LowerStr(kws[i]), 1)],
                PythonTopic)

DependenciesLabel ==
    [name |-> "dependencies", color |-> "8732bc",
     description |-> "Update one or more dependencies' versions"]

ActionsLabel ==
    [name |-> "d:github-actions", color |-> "74fa75",
     description |-> "Update a GitHub Actions action dependency"]

\* the repository name the command uses
repo_name(w, o) ==
    IF o.repo_name = None THEN w.proj.repo_name ELSE o.repo_name[1]

\* r["ssh_url"] of the repository created
ssh_url(name) == <<"git@github.com", name>>

\* obj.gh.user.repos.post: GitHub refuses a name that is taken
create_repo(w, o, fail) ==
    IF fail = "create" \/ w.gh.repo # None
    THEN Raise(Called(w, <<"POST", "user/repos", repo_name(w, o)>>),
               "GitHubException")
    ELSE [Called(w, <<"POST", "user/repos", repo_name(w, o)>>) EXCEPT
             !.gh.repo = Some([name |-> repo_name(w, o),
                               description |-> w.proj.short_description,
                               private |-> o.private,
                               delete_branch_on_merge |-> TRUE])]

\* ghrepo.topics.put
set_topics(w, fail) ==
    IF ~Ok(w) THEN w
    ELSE IF fail = "topics"
    THEN Raise(Called(w, <<"PUT", "topics", keywords(w.proj.keywords)>>),
               "GitHubException")
    ELSE [Called(w, <<"PUT", "topics", keywords(w.proj.keywords)>>) EXCEPT
             !.gh.topics = keywords(w.proj.keywords)]

\* ghrepo.labels.post: GitHub answers 422 when the repository has a label
\* of that name, and the client raises on it
post_label(w, label, failed) ==
    IF ~Ok(w) THEN w
    ELSE IF failed \/ \E l \in w.gh.labels : l.name = label.name
    THEN Raise(Called(w, <<"POST", "labels", label.name>>), "GitHubException")
    ELSE [Called(w, <<"POST", "labels", label.name>>) EXCEPT
             !.gh.labels = @ \cup {label}]

\* the two labels, when .github/dependabot.yml exists
create_labels(w, fail) ==
    IF ~Ok(w) \/ ~w.fs.dependabot THEN w
    ELSE post_label(post_label(w, DependenciesLabel, fail = "dependencies"),
                    ActionsLabel, fail = "d:github-actions")

\* the origin remote is removed if there is one, and added
set_origin(w, o, fail) ==
    IF ~Ok(w) THEN w
    ELSE IF fail = "remote"
    THEN Raise(Called(w, <<"git remote">>), "CalledProcessError")
    ELSE [Called(w, <<"git remote">>) EXCEPT
             !.git.origin = Some(ssh_url(repo_name(w, o)))]

\* git push -u origin refs/heads/* refs/tags/*
push_origin(w, fail) ==
    IF ~Ok(w) THEN w
    ELSE IF fail = "push"
    THEN Raise(Called(w, <<"git push">>), "CalledProcessError")
    ELSE [Called(w, <<"git push">>) EXCEPT !.git.pushed = w.git.origin]

\* mkgithub's cli.  fail: the request or command that fails of itself,
\* "none" when none does.
mkgithub(w, o, fail) ==
    push_origin(
        set_origin(
            create_labels(set_topics(create_repo(Enter(w), o, fail), fail),
                          fail),
            o, fail),
        fail)

MkgithubFails ==
    {"none", "create", "topics", "dependencies", "d:github-actions", "remote",
     "push"}

\* ------------------------------------------------------------------------
\* Calls of the Project methods, with the outcomes of what they run
\* ------------------------------------------------------------------------

EndDevFails ==
    {"none", "version", "open_root", "save_root", "open_docs", "save_docs",
     "log", "license", "conf", "readme", "setupcfg", "get", "put"}

BeginDevFails ==
    {"none", "version", "open_root", "save_root", "open_docs", "save_docs"}

\* the method `name` runs on the world and leaves w
Call(name, w) ==
    /\ Becomes(w)
    /\ last' = [name |-> name, day |-> clock]

\* what dist holds when the build tool has written `built`
DistAfterMake(rmOk, built) ==
    (IF rmOk \/ fs.dist = None THEN {} ELSE fs.dist[1]) \cup built

\* the build tool fails and leaves dist as it is
DoFailedMake(sign_assets, rmOk) ==
    Call("build", build(World, sign_assets, rmOk, FALSE, {}, <<>>, 0))

\* the build tool writes `built`, dist is listed, and gpg signs the first
\* `signed` of the files listed
DoMake(sign_assets, rmOk, built) ==
    \E order \in Listings(DistAfterMake(rmOk, built)) :
        \E signed \in (IF sign_assets THEN 0..Len(order) ELSE {Len(order)}) :
            Call("build", build(World, sign_assets, rmOk, TRUE, built, order,
                                signed))

\* build is called where the build tool writes at most `most` files
DoBuild(sign_assets, most) ==
    \E rmOk \in (IF fs.dist = None THEN {TRUE} ELSE BOOLEAN) :
        \/ DoFailedMake(sign_assets, rmOk)
        \/ \E k \in 1..most :
               DoMake(sign_assets, rmOk, {<<"dist", i>> : i \in 1..k})

DoTwineCheck == \E checkOk \in BOOLEAN : Call("twine_check", twine_check(World, checkOk))

DoToxCheck == \E toxOk \in BOOLEAN : Call("tox_check", tox_check(World, toxOk))

\* how many files reach each destination: one destination fails at most
UploadOutcomes ==
    LET L == Len(proj.assets) + Len(proj.assets_asc)
        n == Len(proj.assets)
    IN  {<<sp, L, n>> : sp \in 0..L} \cup {<<L, sd, n>> : sd \in 0..L}
            \cup {<<L, L, po>> : po \in 0..n}

DoUpload ==
    \E o \in UploadOutcomes : Call("upload", upload(World, o[1], o[2], o[3]))

DoUploadPypi ==
    \E sent \in 0..(Len(proj.assets) + Len(proj.assets_asc)) :
        Call("upload_pypi", upload_pypi(World, sent))

DoUploadDropbox ==
    \E sent \in 0..(Len(proj.assets) + Len(proj.assets_asc)) :
        Call("upload_dropbox", upload_dropbox(World, sent))

DoUploadGithub ==
    \E posted \in 0..Len(proj.assets) :
        Call("upload_github", upload_github(World, posted))

DoCommitVersion ==
    \E fail \in {"none", "commit", "tag", "push"} :
        Call("commit_version", commit_version(World, fail))

DoMkghrelease ==
    \E fail \in {"none", "show", "post"} :
        Call("mkghrelease", mkghrelease(World, fail))

DoEndDev == \E fail \in EndDevFails : Call("end_dev", end_dev(World, clock, fail))

DoBeginDev ==
    \E fail \in BeginDevFails : Call("begin_dev", begin_dev(World, clock, fail))

\* ------------------------------------------------------------------------
\* The release command: cli (release.py:372-389)
\* ------------------------------------------------------------------------

Running == pc \notin {"done", "failed"}

\* Phase, going on to `next` after the phase raised as well
PhaseGoesOn(name, next) ==
    /\ log' = Append(log, name)
    /\ pc' = next
    /\ UNCHANGED <<api, clock, opts, ncalls, arg, ret>>

\* the command calls the phase `name` and goes on to `next` unless it raised
Phase(name, next) ==
    /\ log' = Append(log, name)
    /\ pc' = IF err' = "" THEN next ELSE "failed"
    /\ UNCHANGED <<api, clock, opts, ncalls, arg, ret>>

\* os.ttyname(0) and Project.from_directory, which can fail before any phase
CliStart ==
    /\ pc = "start"
    /\ \E ok \in BOOLEAN :
           /\ err' = IF ok THEN "" ELSE "OSError"
           /\ pc' = IF ok THEN "end_dev" ELSE "failed"
    /\ UNCHANGED <<api, proj, fs, git, gh, pypi, dropbox, calls, clock, opts, log,
                   last, ncalls, arg, ret>>

RunEndDev ==
    /\ pc = "end_dev"
    /\ DoEndDev
    /\ Phase("end_dev", IF opts.tox THEN "tox_check" ELSE "build")

RunToxCheck == pc = "tox_check" /\ DoToxCheck /\ Phase("tox_check", "build")

RunBuild ==
    pc = "build" /\ DoBuild(opts.sign_assets, MaxFiles) /\ Phase("build", "twine_check")

\* RunTwineCheck, with the release record published before the commit
RunTwineCheckSkips ==
    pc = "twine_check" /\ DoTwineCheck /\ Phase("twine_check", "mkghrelease")

RunTwineCheck ==
    pc = "twine_check" /\ DoTwineCheck /\ Phase("twine_check", "commit_version")

RunCommitVersion ==
    pc = "commit_version" /\ DoCommitVersion /\ Phase("commit_version", "mkghrelease")

RunMkghrelease == pc = "mkghrelease" /\ DoMkghrelease /\ Phase("mkghrelease", "upload")

RunUpload == pc = "upload" /\ DoUpload /\ Phase("upload", "begin_dev")

RunBeginDev == pc = "begin_dev" /\ DoBeginDev /\ Phase("begin_dev", "done")

\* a day passes while the command runs
Tick ==
    /\ Running
    /\ clock < MaxDay
    /\ clock' = clock + 1
    /\ UNCHANGED <<api, proj, fs, git, gh, pypi, dropbox, err, calls, opts, pc, log,
                   last, ncalls, arg, ret>>

Init ==
    /\ api = NoClient
    /\ \E v \in RunVersions, layout \in {"fresh", "docs"}, tox_ini \in BOOLEAN,
          dist \in {None, Some({StaleFile})} :
           InitWorld(v, layout, {"python", "work-in-progress"}, tox_ini, dist)
    /\ opts \in [tox : BOOLEAN, sign_assets : BOOLEAN]
    /\ pc = "start"
    /\ arg = <<>>
    /\ ret = [ok |-> FALSE, err |-> "", val |-> <<>>]

Next ==
    \/ CliStart
    \/ RunEndDev
    \/ RunToxCheck
    \/ RunBuild
    \/ RunTwineCheck
    \/ RunCommitVersion
    \/ RunMkghrelease
    \/ RunUpload
    \/ RunBeginDev
    \/ Tick

Spec == Init /\ [][Next]_vars

\* ------------------------------------------------------------------------
\* The Project methods called in any order (OpsSpec)
\* ------------------------------------------------------------------------

\* one more method is called on the Project, outside the command
OpsCall ==
    /\ pc = "ops"
    /\ ncalls < MaxCalls
    /\ ncalls' = ncalls + 1
    /\ UNCHANGED <<api, clock, opts, pc, log, arg, ret>>

OpBuild == OpsCall /\ \E sign_assets \in BOOLEAN : DoBuild(sign_assets, MaxOpsFiles)

OpTwineCheck == OpsCall /\ DoTwineCheck

OpCommitVersion == OpsCall /\ DoCommitVersion

OpMkghrelease == OpsCall /\ DoMkghrelease

OpUpload == OpsCall /\ DoUpload

OpUploadPypi == OpsCall /\ DoUploadPypi

OpUploadDropbox == OpsCall /\ DoUploadDropbox

OpUploadGithub == OpsCall /\ DoUploadGithub

OpsInit ==
    /\ api = NoClient
    /\ \E tagged \in BOOLEAN :
           InitRepo(<<"0", ".", "1", ".", "0">>, "md", {"python"}, FALSE, None,
                    tagged)
    /\ opts = [tox |-> FALSE, sign_assets |-> FALSE]
    /\ pc = "ops"
    /\ arg = <<>>
    /\ ret = [ok |-> FALSE, err |-> "", val |-> <<>>]

OpsNext ==
    \/ OpBuild
    \/ OpTwineCheck
    \/ OpCommitVersion
    \/ OpMkghrelease
    \/ OpUpload
    \/ OpUploadPypi
    \/ OpUploadDropbox
    \/ OpUploadGithub

OpsSpec == OpsInit /\ [][OpsNext]_vars

\* ------------------------------------------------------------------------
\* end_dev and begin_dev on projects of every layout (DevSpec)
\* ------------------------------------------------------------------------

\* the versions end_dev and begin_dev are run on
DevVersions ==
    {<<"0", ".", "1", ".", "d", "e", "v", "1">>,
     <<"0", ".", "1", "a", "1">>,
     <<"1", ".", "0", "r", "c", "1", ".", "d", "e", "v", "2">>,
     <<"1", ".", "0", ".", "a", "1", "d", "e", "v", "1">>,
     <<"1", ".", "0", ".", "a", "1">>,
     <<"0", ".", "1", ".", "1">>,
     <<"1", "!", "0", ".", "5", ".", "0">>,
     <<"2">>}

DevCall ==
    /\ pc = "dev"
    /\ ncalls < MaxDevCalls
    /\ ncalls' = ncalls + 1
    /\ UNCHANGED <<api, clock, opts, pc, log, arg, ret>>

DevEndDev == DevCall /\ DoEndDev

DevBeginDev == DevCall /\ DoBeginDev

DevTick ==
    /\ pc = "dev"
    /\ clock < MaxDay
    /\ clock' = clock + 1
    /\ UNCHANGED <<api, proj, fs, git, gh, pypi, dropbox, err, calls, opts, pc, log,
                   last, ncalls, arg, ret>>

DevInit ==
    /\ api = NoClient
    /\ \E v \in DevVersions, layout \in DOMAIN Layouts,
          topics \in {{"python", "work-in-progress"}} :
           InitWorld(v, layout, topics, FALSE, None)
    /\ opts = [tox |-> FALSE, sign_assets |-> FALSE]
    /\ pc = "dev"
    /\ arg = <<>>
    /\ ret = [ok |-> FALSE, err |-> "", val |-> <<>>]

DevNext == DevEndDev \/ DevBeginDev \/ DevTick

DevSpec == DevInit /\ [][DevNext]_vars

\* ------------------------------------------------------------------------
\* next_version on the version inputs (VerSpec)
\* ------------------------------------------------------------------------

\* next_version(arg) is called and what it does is kept in ret
CallNextVersion ==
    /\ pc = "ver"
    /\ ret' = next_version(arg)
    /\ pc' = "returned"
    /\ UNCHANGED <<api, proj, fs, git, gh, pypi, dropbox, err, calls, clock, opts,
                   log, last, ncalls, arg>>

VerInit ==
    /\ api = NoClient
    /\ InitWorld(<<"0", ".", "1", ".", "0">>, "md", {"python"}, FALSE, None)
    /\ opts = [tox |-> FALSE, sign_assets |-> FALSE]
    /\ pc = "ver"
    /\ arg \in VersionInputs
    /\ ret = [ok |-> FALSE, err |-> "", val |-> <<>>]

VerNext == CallNextVersion

VerSpec == VerInit /\ [][VerNext]_vars

\* ------------------------------------------------------------------------
\* get_changelog and set_changelog on every set of candidate files
\* (StoreSpec)
\* ------------------------------------------------------------------------

\* what the candidate file at path holds before the first call
FoundDoc(path) == [intro |-> path, sections |-> <<OldSection>>]

\* the directories: each candidate file there or not, docs/changelog.rst
\* only in a docs directory
StoreDirs ==
    {dir \in {[chlog |-> [p \in ChangelogPaths |->
                             IF p \in X THEN File(FoundDoc(p)) ELSE None],
               docsDir |-> d] : X \in SUBSET ChangelogPaths, d \in BOOLEAN} :
        dir.docsDir \/ dir.chlog[DocsChangelog[1]] = None}

\* the documents set_changelog is given
StoreDocs == {RootDoc, DocsDoc, EmptyChangelog}

StoreCall ==
    /\ pc = "store"
    /\ ncalls < MaxCalls
    /\ ncalls' = ncalls + 1
    /\ UNCHANGED <<api, clock, opts, pc, log>>

\* set_changelog(value, docs=docs) is called; arg keeps what it was given
StoreSet ==
    /\ StoreCall
    /\ \E docs \in BOOLEAN, value \in {None} \cup {Some(d) : d \in StoreDocs},
          wr \in {"ok", "open", "save"} :
           /\ Call("set_changelog", set_changelog(Enter(World), value, docs, wr))
           /\ arg' = <<docs, value>>
    /\ UNCHANGED ret

\* get_changelog(docs=docs) is called; ret keeps what it returned
StoreGet ==
    /\ StoreCall
    /\ \E docs \in BOOLEAN :
           /\ Call("get_changelog", Enter(World))
           /\ arg' = <<docs>>
           /\ ret' = [ok |-> TRUE, err |-> "", val |-> get_changelog(fs, docs)]

StoreInit ==
    /\ api = NoClient
    /\ \E dir \in StoreDirs :
           InitDir(<<"0", ".", "1", ".", "0">>, dir, {"python"}, FALSE, None,
                   FALSE)
    /\ opts = [tox |-> FALSE, sign_assets |-> FALSE]
    /\ pc = "store"
    /\ arg = <<>>
    /\ ret = [ok |-> FALSE, err |-> "", val |-> <<>>]

StoreNext == StoreSet \/ StoreGet

StoreSpec == StoreInit /\ [][StoreNext]_vars

\* ------------------------------------------------------------------------
\* One request of the GitHub client and the reading of what it returned
\* (ApiSpec)
\* ------------------------------------------------------------------------

ApiStep ==
    UNCHANGED <<proj, fs, git, gh, pypi, dropbox, err, calls, clock, opts,
                log, last, ncalls, arg, ret>>

\* the request is made
ApiCall ==
    /\ pc = "api"
    /\ api' = GitHub_call(api)
    /\ pc' = IF api'.result.kind = "iterator" THEN "iter" ELSE "called"
    /\ ApiStep

\* the consumer asks the iterator for its next element
ApiIterate ==
    /\ pc = "iter"
    /\ api' = generator_next(api)
    /\ pc' = pc
    /\ ApiStep

\* the consumer stops before the end
ApiClose ==
    /\ pc = "iter"
    /\ api.at \in {"start", "yield"}
    /\ api' = generator_close(api)
    /\ pc' = pc
    /\ ApiStep

ApiInit ==
    /\ InitWorld(<<"0", ".", "1", ".", "0">>, "md", {"python"}, FALSE, None)
    /\ opts = [tox |-> FALSE, sign_assets |-> FALSE]
    /\ pc = "api"
    /\ arg = <<>>
    /\ ret = [ok |-> FALSE, err |-> "", val |-> <<>>]
    /\ \E pages \in Servers, method \in Methods, raw \in BOOLEAN :
           api = Client(pages, method, raw)

ApiNext == ApiCall \/ ApiIterate \/ ApiClose

ApiSpec == ApiInit /\ [][ApiNext]_vars

\* ------------------------------------------------------------------------
\* The mkgithub command on a project without a GitHub repository (BootSpec)
\* ------------------------------------------------------------------------

\* keywords of the project
KeywordLists ==
    {<<>>, <<PythonTopic>>, <<<<"W", "e", "b", " ", "&", " ", "I", "O">>>>}

\* the labels GitHub gives the repository on creating it
GivenLabels ==
    {{}, {DependenciesLabel}, {ActionsLabel},
     {[DependenciesLabel EXCEPT !.color = "0366d6"]}}

\* the command runs, from the first request to the push or to what raised
RunMkgithub ==
    /\ pc = "mkgithub"
    /\ \E fail \in MkgithubFails :
           /\ Call("mkgithub", mkgithub(World, opts, fail))
           /\ arg' = <<fail>>
    /\ pc' = IF err' = "" THEN "done" ELSE "failed"
    /\ UNCHANGED <<api, clock, log, opts, ncalls, ret>>

BootInit ==
    /\ api = NoClient
    /\ \E kws \in KeywordLists, dependabot \in BOOLEAN,
          labels \in GivenLabels, taken \in BOOLEAN,
          origin \in {None, Some(<<"elsewhere">>)} :
           /\ proj = [repo_name |-> "project",
                      short_description |-> "A project", keywords |-> kws]
           /\ fs = [dependabot |-> dependabot]
           /\ git = [origin |-> origin, pushed |-> None]
           /\ gh = [repo |-> IF taken
                             THEN Some([name |-> "project",
                                        description |-> "",
                                        private |-> FALSE,
                                        delete_branch_on_merge |-> FALSE])
                             ELSE None,
                    topics |-> <<>>, labels |-> labels]
    /\ \E private \in BOOLEAN, name \in {None, Some("other")} :
           opts = [private |-> private, repo_name |-> name]
    /\ pypi = {}
    /\ dropbox = {}
    /\ err = ""
    /\ calls = <<>>
    /\ clock = 0
    /\ log = <<>>
    /\ last = [name |-> "", day |-> 0]
    /\ ncalls = 0
    /\ pc = "mkgithub"
    /\ arg = <<>>
    /\ ret = [ok |-> FALSE, err |-> "", val |-> <<>>]

BootNext == RunMkgithub

BootSpec == BootInit /\ [][BootNext]_vars

\* ------------------------------------------------------------------------
\* end_initial_dev and update_gh_topics on every set of topics (TopicSpec)
\* ------------------------------------------------------------------------

TopicNames == {"python", "work-in-progress", "available-on-pypi"}

TopicCall ==
    /\ pc = "topics"
    /\ ncalls < MaxCalls
    /\ ncalls' = ncalls + 1
    /\ UNCHANGED <<api, clock, opts, pc, log, ret>>

\* end_initial_dev() is called
TopicEndInitialDev ==
    /\ TopicCall
    /\ \E fail \in {"none", "readme", "setupcfg", "get", "put"} :
           /\ Call("end_initial_dev", end_initial_dev(Enter(World), fail))
           /\ arg' = <<fail>>

\* update_gh_topics(add, remove) is called
TopicUpdate ==
    /\ TopicCall
    /\ \E add \in SUBSET TopicNames, remove \in SUBSET TopicNames,
          fail \in {"none", "get", "put"} :
           /\ Call("update_gh_topics",
                   update_gh_topics(Enter(World), add, remove, fail))
           /\ arg' = <<fail, add, remove>>

TopicInit ==
    /\ api = NoClient
    /\ \E topics \in SUBSET TopicNames :
           InitWorld(<<"0", ".", "1", ".", "0">>, "fresh", topics, FALSE, None)
    /\ opts = [tox |-> FALSE, sign_assets |-> FALSE]
    /\ pc = "topics"
    /\ arg = <<>>
    /\ ret = [ok |-> FALSE, err |-> "", val |-> <<>>]

TopicNext == TopicEndInitialDev \/ TopicUpdate

TopicSpec == TopicInit /\ [][TopicNext]_vars

\* ------------------------------------------------------------------------
\* get_commit_years on commit logs (YearSpec)
\* ------------------------------------------------------------------------

\* the years commits are dated in
LogYears == {BaseYear - 3, BaseYear - 1, BaseYear}

\* the outputs of git log: a line for each commit, in any order of years
GitOutputs ==
    UNION {[1..n -> {IntStr(y) : y \in LogYears}] : n \in 0..MaxLog}

\* get_commit_years(Path(), include_now) is called on the log in arg; ret
\* keeps the list returned and the calls of time.localtime made
CallGetCommitYears ==
    /\ pc = "years"
    /\ ret' = [ok |-> TRUE, err |-> "",
               val |-> commit_years(arg[1], arg[2], clock)]
    /\ pc' = "listed"
    /\ UNCHANGED <<api, proj, fs, git, gh, pypi, dropbox, err, calls, clock,
                   opts, log, last, ncalls, arg>>

YearInit ==
    /\ api = NoClient
    /\ InitWorld(<<"0", ".", "1", ".", "0">>, "md", {"python"}, FALSE, None)
    /\ opts = [tox |-> FALSE, sign_assets |-> FALSE]
    /\ pc = "years"
    /\ \E gitoutput \in GitOutputs, include_now \in BOOLEAN :
           arg = <<gitoutput, include_now>>
    /\ ret = [ok |-> FALSE, err |-> "", val |-> <<>>]

YearNext == CallGetCommitYears

YearSpec == YearInit /\ [][YearNext]_vars

\* ------------------------------------------------------------------------
\* Properties of the release command
\* ------------------------------------------------------------------------

\* the phases of a run, in the order cli calls them
PhaseOrder(tox) ==
    <<"end_dev">> \o (IF tox THEN <<"tox_check">> ELSE <<>>)
        \o <<"build", "twine_check", "commit_version", "mkghrelease", "upload",
             "begin_dev">>

\* C1: the phases of a run are started in the fixed order end_dev,
\* tox_check (only with the tox option), build, twine_check, commit_version,
\* mkghrelease, upload, begin_dev, each at most once: what has been started
\* is always a prefix of that order, the phase to start next is the one after
\* that prefix, and a run that ends normally has started all of them.
PhasesInOrder ==
    /\ Len(log) <= Len(PhaseOrder(opts.tox))
    /\ log = SubSeq(PhaseOrder(opts.tox), 1, Len(log))
    /\ (pc = "done" => log = PhaseOrder(opts.tox))
    /\ (pc \notin {"start", "done", "failed"}
            => pc = PhaseOrder(opts.tox)[Len(log) + 1])

\* a run with the tox option has gone through every phase
AllPhasesRan == pc = "done" /\ opts.tox /\ Len(log) = 8

\* the files of the release record: assets + assets_asc
AllFiles == SeqToSet(proj.assets) \cup SeqToSet(proj.assets_asc)

\* the names of the assets GitHub holds for the release created last
Released ==
    IF proj.release_upload_url = None THEN {}
    ELSE ReleaseAssets(World, proj.release_upload_url[1])

\* every destination holds what upload sends it
UploadedEverywhere ==
    /\ AllFiles \subseteq pypi
    /\ AllFiles \subseteq dropbox
    /\ {basename(f) : f \in SeqToSet(proj.assets)} \subseteq Released

\* C2: a phase that raises ends the run, and nothing has an effect after
\* that: the run is then failed and no step follows.  So a tag exists only
\* after build and twine_check went through, a release only after
\* commit_version went through, and begin_dev is started only when every
\* destination of upload holds the files.
FailureStopsRun ==
    /\ [](/\ err # "" => pc = "failed"
          /\ git.tags # {} =>
                 /\ Len(log) >= Len(PhaseOrder(opts.tox)) - 3
                 /\ proj.assets # <<>>
          /\ gh.releases # <<>> =>
                 /\ Len(log) >= Len(PhaseOrder(opts.tox)) - 2
                 /\ git.pushed = [commits |-> Len(git.commits),
                                  tags |-> git.tags]
          /\ (Len(log) = Len(PhaseOrder(opts.tox)) => UploadedEverywhere))
    /\ [][pc # "failed" /\ (err' # "" => pc' = "failed")]_vars

\* a run has failed in twine_check, after a build that went through
FailedInVerify ==
    /\ pc = "failed"
    /\ Len(log) >= 2
    /\ log[Len(log)] = "twine_check"
    /\ proj.assets # <<>>

\* C4 (as claimed): after upload went through, the package index, the file
\* storage and the GitHub release each hold every asset and every signature.
UploadSendsAllEverywhere ==
    (last.name = "upload" /\ err = "")
        => /\ AllFiles \subseteq pypi
           /\ AllFiles \subseteq dropbox
           /\ {basename(f) : f \in AllFiles} \subseteq Released

\* C4 (amended): after upload went through, the package index and the file
\* storage each hold every asset and every signature, and the GitHub release
\* holds every asset; what was posted to the release is the assets alone.
UploadSendsAssets ==
    (last.name = "upload" /\ err = "")
        => /\ UploadedEverywhere
           /\ proj.assets # <<>>
           /\ {c \in SeqToSet(calls) : c[1] = "POST"}
                  = {<<"POST", proj.release_upload_url[1], basename(f)>> :
                         f \in SeqToSet(proj.assets)}

\* upload went through with two assets and their signatures
UploadedSigned ==
    /\ last.name = "upload"
    /\ err = ""
    /\ Len(proj.assets) = 2
    /\ Len(proj.assets_asc) = 2

\* ------------------------------------------------------------------------
\* Properties of the Project methods
\* ------------------------------------------------------------------------

\* the method `name` is called in this step
Calling(name) == last'.name = name /\ ncalls' = ncalls + 1

\* C3: assets are posted to a release only by upload_github (alone or at the
\* end of upload) and only where release_upload_url is set; it is set only
\* by a mkghrelease that went through, to the upload URL of a release that
\* exists; upload_github where it is not set raises AssertionError without
\* a request; and a mkghrelease that raises leaves it as it was, so not set
\* where it was not set.
UploadTargetGuardsPosts ==
    /\ [](proj.release_upload_url # None =>
              \E i \in DOMAIN gh.releases :
                  proj.release_upload_url = Some(<<"upload_url", i>>))
    /\ [][/\ gh.relAssets' # gh.relAssets =>
                 /\ last'.name \in {"upload_github", "upload"}
                 /\ proj.release_upload_url # None
                 /\ proj.release_upload_url' = proj.release_upload_url
          /\ (Calling("upload_github") /\ proj.release_upload_url = None) =>
                 /\ err' = "AssertionError"
                 /\ calls' = <<>>
                 /\ gh' = gh
          /\ proj.release_upload_url' # proj.release_upload_url =>
                 /\ last'.name = "mkghrelease"
                 /\ err' = ""
          /\ (Calling("mkghrelease") /\ err' # "") =>
                 proj.release_upload_url' = proj.release_upload_url]_vars

\* upload_github has posted an asset to the release mkghrelease created
AssetPosted ==
    /\ last.name = "upload_github"
    /\ err = ""
    /\ gh.relAssets # {}
    /\ gh.releases # <<>>

\* C5: after a build that went through, assets is what the build tool wrote
\* in that build: nothing of an earlier build, nothing left in dist.
AssetsAreTheBuilt ==
    (last.name = "build" /\ err = "") => SeqToSet(proj.assets) = calls[1][2]

\* C6: assets_asc is empty or holds, entry by entry, the signatures of
\* assets, in every state, the one a failed signing leaves included.
SignaturesMatchAssets ==
    proj.assets_asc = <<>> \/ proj.assets_asc = AscSeq(proj.assets)

\* build raised before dist was listed: the build tool was the only call
FailedInMake == last.name = "build" /\ err # "" /\ Len(calls) = 1

\* twine_check with no assets raises AssertionError and runs nothing; with
\* assets it runs `twine check` on all of them and raises when that fails
VerifyStep ==
    Calling("twine_check") =>
        IF proj.assets = <<>>
        THEN err' = "AssertionError" /\ calls' = <<>>
        ELSE /\ Len(calls') = 1
             /\ calls'[1][1] = "twine check"
             /\ calls'[1][2] = proj.assets
             /\ err' = (IF calls'[1][3] = 0 THEN "" ELSE "CalledProcessError")

\* C7 (as claimed): VerifyStep, and twine_check after a build that raised
\* raises too.
VerifyFailsAfterFailedBuild ==
    [][/\ VerifyStep
       /\ (last.name = "build" /\ err # "" /\ Calling("twine_check"))
              => err' # ""]_vars

\* C7 (amended): VerifyStep; assets is set by build alone, so twine_check
\* before any build raises; and twine_check after a build that raised before
\* it collected an asset raises.
VerifyNeedsAssets ==
    [][/\ VerifyStep
       /\ proj.assets' # proj.assets => last'.name = "build"
       /\ (ncalls = 0 /\ Calling("twine_check")) => err' = "AssertionError"
       /\ (FailedInMake /\ Calling("twine_check"))
              => err' = "AssertionError"]_vars

\* twine_check has refused to run after a build that raised
VerifyRefused ==
    /\ last.name = "twine_check"
    /\ err = "AssertionError"
    /\ calls = <<>>
    /\ ncalls >= 2
    /\ fs.dist # None

\* ------------------------------------------------------------------------
\* Properties of next_version and end_dev
\* ------------------------------------------------------------------------

\* the version parsed from arg, and from what next_version returned
Given == Version(arg)

Returned == Version(ret.val)

\* C8: for a valid version, next_version returns a version with the same
\* epoch and nothing after the release segment; for a prerelease or
\* development version its release segment is the one given; otherwise the
\* first component is the one given, the second is one more than given,
\* and every later one is 0.
NextVersionAsClaimed ==
    (pc = "returned" /\ Given.valid) =>
        /\ ret.ok
        /\ Returned.valid
        /\ Returned.epoch = Given.epoch
        /\ ret.val = base_version(Returned)
        /\ IF is_prerelease(Given)
           THEN Returned.release = Given.release
           ELSE /\ Len(Returned.release) = Len(Given.release)
                /\ Returned.release[1] = Given.release[1]
                /\ \A i \in 2..Len(Given.release) :
                       Returned.release[i] =
                           IF i = 2 THEN Given.release[2] + 1 ELSE 0

\* C9: next_version returns a version for every valid version, whatever the
\* number of its release components, and raises InvalidVersion, nothing
\* else, for every other string.
NextVersionTotal ==
    pc = "returned" =>
        IF Given.valid
        THEN ret.ok /\ ret.err = "" /\ Returned.valid
        ELSE ~ret.ok /\ ret.err = "InvalidVersion"

\* C10: end_dev called again on the day of an end_dev that went through
\* changes nothing: not the version, not a file of the project, not the
\* topics.
EndDevIdempotent ==
    [][(/\ last.name = "end_dev"
        /\ err = ""
        /\ Calling("end_dev")
        /\ err' = ""
        /\ last'.day = last.day)
           => /\ proj' = proj
              /\ fs' = fs
              /\ gh.topics' = gh.topics]_vars

\* ------------------------------------------------------------------------
\* Properties of end_dev and begin_dev on the changelogs and the version
\* ------------------------------------------------------------------------

\* end_dev is called in this step and goes through
EndDevDone == Calling("end_dev") /\ err' = ""

\* the step made the requests of the initial-release sub-flow and left the
\* badge and the topics as that sub-flow leaves them
RanInitialFlow ==
    /\ \E i \in DOMAIN calls' : calls'[i][1] = "GET"
    /\ \A i \in DOMAIN fs.readme'[1] : fs.readme'[1][i] # "wip"
    /\ \A i \in DOMAIN fs.setupCfg'[1] : fs.setupCfg'[1][i].status \notin 1..3
    /\ "available-on-pypi" \in gh.topics'
    /\ "work-in-progress" \notin gh.topics'

\* the step left the badge, the classifiers and the topics alone
SkippedInitialFlow ==
    /\ \A i \in DOMAIN calls' : calls'[i][1] # "GET"
    /\ fs.readme' = fs.readme
    /\ fs.setupCfg' = fs.setupCfg
    /\ gh.topics' = gh.topics

\* no changelog file is created in this step
NoChangelogCreated ==
    \A p \in ChangelogPaths : fs.chlog[p] = None => fs.chlog'[p] = None

\* the changelog of the variant, where it has a section, has after the step
\* the same intro and sections with the first section dated today
FirstSectionDated(docs) ==
    HasSections(get_changelog(fs, docs)) =>
        get_changelog(fs', docs) =
            Some([get_changelog(fs, docs)[1] EXCEPT
                     !.sections[1].date = today(clock)])

\* C11 (as claimed): an end_dev that goes through runs the initial-release
\* sub-flow where the project has no changelog at all, and where it has one,
\* of whichever variant, it dates the first section of every variant and
\* does not run the sub-flow; no end_dev creates a changelog file.
EndDevByAnyChangelog ==
    [][/\ Calling("end_dev") => NoChangelogCreated
       /\ EndDevDone =>
              /\ FirstSectionDated(FALSE)
              /\ FirstSectionDated(TRUE)
              /\ IF \A p \in ChangelogPaths : fs.chlog[p] = None
                 THEN RanInitialFlow
                 ELSE SkippedInitialFlow]_vars

\* C11 (amended): the same, decided by the root changelog alone: the
\* sub-flow runs where neither CHANGELOG.md nor CHANGELOG.rst exists, a docs
\* changelog or none, and does not run where one of them exists.
EndDevByRootChangelog ==
    [][/\ Calling("end_dev") => NoChangelogCreated
       /\ EndDevDone =>
              /\ FirstSectionDated(FALSE)
              /\ FirstSectionDated(TRUE)
              /\ IF \A i \in DOMAIN CHANGELOG_NAMES :
                        fs.chlog[CHANGELOG_NAMES[i]] = None
                 THEN RanInitialFlow
                 ELSE SkippedInitialFlow]_vars

\* end_dev went through the initial-release sub-flow on a project that has
\* a docs changelog only, and dated that changelog
InitialFlowBesideDocs ==
    /\ last.name = "end_dev"
    /\ err = ""
    /\ \E i \in DOMAIN calls : calls[i][1] = "PUT"
    /\ fs.chlog["CHANGELOG.md"] = None
    /\ fs.chlog["docs/changelog.rst"] # None
    /\ get_changelog(fs, TRUE)[1].sections[1].date = today(clock)

\* begin_dev is called in this step and goes through
BeginDevDone == Calling("begin_dev") /\ err' = ""

\* the section for the version after the one the step starts from
InDevelopment ==
    [version |-> <<"v">> \o next_version(proj.version).val,
     date |-> <<"in development">>, content |-> ""]

\* the section for the version the step starts from
InitialRelease ==
    [version |-> <<"v">> \o proj.version, date |-> today(clock),
     content |-> "Initial release"]

\* C12 (as claimed): after a begin_dev that goes through, the root and the
\* docs changelog each start with the new in-development section; after it
\* come the sections there were, under the intro there was, or, where the
\* variant had no changelog, the one section of the initial release.
BeginDevAddsToBoth ==
    [][BeginDevDone =>
           \A docs \in BOOLEAN :
               /\ get_changelog(fs', docs) # None
               /\ get_changelog(fs', docs)[1].sections # <<>>
               /\ get_changelog(fs', docs)[1].sections[1] = InDevelopment
               /\ IF get_changelog(fs, docs) # None
                  THEN /\ get_changelog(fs', docs)[1].intro
                              = get_changelog(fs, docs)[1].intro
                       /\ Tail(get_changelog(fs', docs)[1].sections)
                              = get_changelog(fs, docs)[1].sections
                  ELSE Tail(get_changelog(fs', docs)[1].sections)
                           = <<InitialRelease>>]_vars

\* the variant starts after the step with the new section, followed by the
\* sections and the intro there were, or by the initial release alone under
\* the intro of a new changelog where there was no section before
SectionAdded(docs) ==
    /\ get_changelog(fs', docs) # None
    /\ get_changelog(fs', docs)[1].sections # <<>>
    /\ get_changelog(fs', docs)[1].sections[1] = InDevelopment
    /\ IF HasSections(get_changelog(fs, docs))
       THEN /\ get_changelog(fs', docs)[1].intro
                   = get_changelog(fs, docs)[1].intro
            /\ Tail(get_changelog(fs', docs)[1].sections)
                   = get_changelog(fs, docs)[1].sections
       ELSE /\ get_changelog(fs', docs)[1].intro
                   = (IF docs THEN "Changelog\n=========\n\n" ELSE "")
            /\ Tail(get_changelog(fs', docs)[1].sections)
                   = <<InitialRelease>>

\* C12 (amended): after a begin_dev that goes through, the root changelog,
\* and the docs changelog where the docs directory exists, is as
\* SectionAdded says; without a docs directory no docs changelog is written.
BeginDevAddsWhereDocs ==
    [][BeginDevDone =>
           /\ SectionAdded(FALSE)
           /\ IF fs.docsDir
              THEN SectionAdded(TRUE)
              ELSE get_changelog(fs', TRUE) = get_changelog(fs, TRUE)]_vars

\* begin_dev went through on a project with both variants: the root
\* changelog has a third section now, the docs changelog a second
SectionsAdded ==
    /\ last.name = "begin_dev"
    /\ err = ""
    /\ Len(get_changelog(fs, FALSE)[1].sections) = 3
    /\ get_changelog(fs, TRUE) # None
    /\ Len(get_changelog(fs, TRUE)[1].sections) = 2

\* the order of versions: a is before b, for sequences of numbers compared
\* entry by entry, a proper prefix being before what it is a prefix of
RECURSIVE SeqBefore(_, _)
SeqBefore(a, b) ==
    IF b = <<>> THEN FALSE
    ELSE IF a = <<>> THEN TRUE
    ELSE IF a[1] # b[1] THEN a[1] < b[1]
    ELSE SeqBefore(Tail(a), Tail(b))

\* the release segment without the zeros at its end
RECURSIVE NoTrailingZeros(_)
NoTrailingZeros(r) ==
    IF r # <<>> /\ r[Len(r)] = 0
    THEN NoTrailingZeros(SubSeq(r, 1, Len(r) - 1)) ELSE r

\* where the pre, post and dev parts put a version among those of its
\* release: a development version of the release itself first, a final
\* version after its prereleases, a post-release after that, the development
\* version of anything before it
SuffixRank(vobj) ==
    (IF vobj.pre = <<>>
     THEN IF vobj.post = <<>> /\ vobj.dev # <<>> THEN <<0>> ELSE <<4>>
     ELSE <<(CASE vobj.pre[1] = "a" -> 1 [] vobj.pre[1] = "b" -> 2
               [] OTHER -> 3), vobj.pre[2]>>)
    \o (IF vobj.post = <<>> THEN <<0>> ELSE <<1, vobj.post[1]>>)
    \o (IF vobj.dev = <<>> THEN <<1>> ELSE <<0, vobj.dev[1]>>)

\* the public version a is before the public version b
VersionBefore(a, b) ==
    IF a.epoch # b.epoch THEN a.epoch < b.epoch
    ELSE IF NoTrailingZeros(a.release) # NoTrailingZeros(b.release)
    THEN SeqBefore(NoTrailingZeros(a.release), NoTrailingZeros(b.release))
    ELSE SeqBefore(SuffixRank(a), SuffixRank(b))

\* the value of the __version__ line of the version-declaration file
DeclaredVersion(file) ==
    LET i == CHOOSE j \in DOMAIN file : file[j][1] = "__version__"
    IN  SubSeq(file[i][2], 2, Len(file[i][2]) - 1)

\* the version the run released: the one its tag is named after
ReleasedVersion == Tail((CHOOSE t \in git.tags : TRUE).name)

\* C13: the begin_dev of a run that goes through leaves next_version of
\* the version it started from, followed by ".dev1", as the version in
\* memory and in the version-declaration file; so a run that ends normally
\* leaves a development version of a release that comes after the version
\* it released.
BeginDevSetsNextDev ==
    /\ [][(pc = "begin_dev" /\ pc' = "done") =>
              /\ next_version(proj.version).ok
              /\ proj.version' = next_version(proj.version).val
                                     \o <<".", "d", "e", "v", "1">>
              /\ DeclaredVersion(fs.initfile') = proj.version']_vars
    /\ [](pc = "done" =>
              /\ Version(proj.version).valid
              /\ Version(proj.version).dev = <<1>>
              /\ Version(base_version(Version(proj.version))).release
                     = Version(proj.version).release
              /\ VersionBefore(Version(ReleasedVersion),
                               Version(base_version(Version(proj.version)))))

\* ------------------------------------------------------------------------
\* Properties of the changelog store
\* ------------------------------------------------------------------------

\* the candidate of the variant a write goes to in this state: the first
\* that exists, the first of all where none exists
WriteTarget(docs) ==
    LET paths == IF docs THEN <<"docs/changelog.rst">>
                 ELSE <<"CHANGELOG.md", "CHANGELOG.rst">>
        there == {i \in DOMAIN paths : fs.chlog[paths[i]] # None}
    IN  IF there = {} THEN paths[1]
        ELSE paths[CHOOSE i \in there : \A j \in there : i <= j]

IsPrefix(p, q) == Len(p) <= Len(q) /\ SubSeq(q, 1, Len(p)) = p

RECURSIVE ElementsUpTo(_, _)

\* the elements of the first k pages, page after page
ElementsUpTo(pages, k) ==
    IF k = 0 THEN <<>>
    ELSE ElementsUpTo(pages, k - 1)
             \o (IF pages[k].body = None THEN <<>> ELSE pages[k].body[1])

AllElements == ElementsUpTo(api.pages, Len(api.pages))

\* C15: a paginated GET has made one request when it returns its iterator;
\* each next() yields at most one element, and what was yielded so far is
\* always the beginning of the elements of all pages in page order and in
\* the order within each page; a request is made only when every element of
\* the pages requested before has been yielded, and none after the consumer
\* stopped; when the iterator ends it has yielded every element once and as
\* many requests were made as there are pages.
PaginateIsLazy ==
    [][/\ (pc = "api" /\ pc' = "iter") => api'.requests = 1 /\ api'.out = <<>>
       /\ pc = "iter" =>
              /\ IsPrefix(api.out, api'.out)
              /\ Len(api'.out) <= Len(api.out) + 1
              /\ IsPrefix(api'.out, AllElements)
              /\ api'.requests # api.requests =>
                     /\ api.out = ElementsUpTo(api.pages, api.requests)
                     /\ api.at # "closed"
              /\ api'.at = "done" =>
                     /\ api'.out = AllElements
                     /\ api'.requests = Len(api.pages)]_vars

\* every page was read to the end
ReadEveryPage ==
    /\ pc = "iter"
    /\ api.at = "done"
    /\ Len(api.pages) > 1
    /\ api.requests = Len(api.pages)
    /\ Len(api.out) = Len(api.pages) * MaxItems

Is2xx(r) == 200 <= r.status /\ r.status < 300

\* C16: a request that is not raw raises GitHubException with the response
\* whenever the status is not 2xx, on the first response and on every later
\* page of a paginated read; it never raises on 2xx, and returns null on
\* 204; a raw request returns the response object whatever the status.
NonSuccessRaises ==
    [][/\ (pc = "api" /\ api.method # None /\ ~api.raw) =>
              /\ ~Is2xx(api.pages[1]) =>
                     api'.result = GitHubException(api.pages[1])
              /\ Is2xx(api.pages[1]) =>
                     api'.result.kind \in {"json", "iterator"}
              /\ api.pages[1].status = 204 => api'.result = Gave("json", None)
       /\ (pc = "api" /\ api.method # None /\ api.raw) =>
              api'.result = Gave("response", api.pages[1])
       /\ (pc = "iter" /\ api'.requests # api.requests) =>
              \A k \in (api.requests + 1)..api'.requests :
                  ~Is2xx(api.pages[k]) =>
                      /\ k = api'.requests
                      /\ api'.at = "raised"
                      /\ api'.raised = GitHubException(api.pages[k])
       /\ (pc = "iter" /\ api.at # "raised" /\ api'.at = "raised") =>
              ~Is2xx(api.pages[api'.page])]_vars

\* ------------------------------------------------------------------------
\* Properties of the mkgithub command
\* ------------------------------------------------------------------------

\* C17: when .github/dependabot.yml exists and nothing fails of itself, the
\* command leaves both labels on the repository with their name, color and
\* description, whether or not the repository had one of them before, raises
\* nothing, and goes on to set the origin remote and to push.
LabelsEnsured ==
    [][(pc = "mkgithub" /\ fs.dependabot /\ gh.repo = None
        /\ pc' # "mkgithub" /\ arg' = <<"none">>) =>
           /\ {DependenciesLabel, ActionsLabel} \subseteq gh'.labels
           /\ err' = ""
           /\ git'.origin = Some(ssh_url(gh'.repo[1].name))
           /\ git'.pushed = git'.origin]_vars

\* ------------------------------------------------------------------------
\* Properties of the files the release writes
\* ------------------------------------------------------------------------

\* C18: end_dev and begin_dev, called on a project whose version is valid,
\* leave a valid version in the Project and in the __version__ line of the
\* version file: what end_dev's suffix strip gives is valid, and no invalid
\* value is written.
VersionStaysValid ==
    [][(/\ Calling("end_dev") \/ Calling("begin_dev")
        /\ Version(proj.version).valid
        /\ Version(DeclaredVersion(fs.initfile)).valid)
           => /\ Version(proj.version').valid
              /\ Version(DeclaredVersion(fs.initfile')).valid]_vars

\* a changelog file that is there is whole: not cut short in the middle of
\* a write
Whole(file) == file = None \/ file[1] # PartialFile

\* C19: whatever fails in end_dev or begin_dev, each file they edit is left
\* whole, with what it held before or with all of its new text.  The version
\* file, docs/conf.py, the readme and setup.cfg are edited through InPlace,
\* which replaces the file on success only, so their edits are single steps
\* of set_version, conf_step, readme_step and setupcfg_step; what is left
\* to state is the same of the changelog files.
FileEditsAtomic ==
    [][(Calling("end_dev") \/ Calling("begin_dev")) =>
           \A p \in ChangelogPaths :
               Whole(fs.chlog[p]) =>
                   /\ Whole(fs.chlog'[p])
                   /\ err' # "" =>
                          \/ fs.chlog'[p] = fs.chlog[p]
                          \/ /\ fs.chlog'[p] # None
                             /\ fs.chlog'[p][1]
                                    = ChangelogSave(
                                          ChangelogLoad(fs.chlog'[p][1]))]_vars

\* ------------------------------------------------------------------------
\* Properties of commit_version
\* ------------------------------------------------------------------------

\* the tag commit_version makes of the Project's version on the last commit
VersionTag ==
    [name |-> <<"v">> \o proj.version,
     message |-> <<"Version ">> \o proj.version,
     commit |-> Len(git.commits')]

\* the commands of commit_version, in their order
CommitCommands ==
    <<<<"git commit">>, <<"git tag", <<"v">> \o proj.version>>, <<"git push">>>>

\* C20: commit_version runs git commit, then git tag, then git push, and
\* stops at the first that fails.  The tag v<version> with the message
\* "Version <version>" is made only on the commit just made, the push comes
\* only after the tag was made, and when the tag or the push fails the
\* commit (and the tag) made before stay as they are: no other command is
\* run, and nothing was pushed.
CommitTagPushInOrder ==
    [][Calling("commit_version") =>
           /\ calls' # <<>>
           /\ IsPrefix(calls', CommitCommands)
           /\ IsPrefix(git.commits, git.commits')
           /\ git.tags \subseteq git.tags'
           /\ Len(calls') >= 2 => Len(git.commits') = Len(git.commits) + 1
           /\ Len(calls') = 3 => VersionTag \in git.tags' \ git.tags
           /\ (Len(calls') = 2 /\ err' # "") =>
                  /\ Len(git.commits') = Len(git.commits) + 1
                  /\ git.tags' = git.tags
                  /\ git.pushed' = git.pushed
           /\ (Len(calls') = 3 /\ err' # "") =>
                  /\ git.tags' = git.tags \cup {VersionTag}
                  /\ git.pushed' = git.pushed
           /\ err' = "" =>
                  /\ Len(calls') = 3
                  /\ git.pushed' = [commits |-> Len(git.commits'),
                                    tags |-> git.tags']]_vars

\* the push failed after the commit and the tag were made
PushFailedAfterTag ==
    /\ last.name = "commit_version"
    /\ err # ""
    /\ Len(calls) = 3
    /\ git.commits # <<>>
    /\ git.tags # {}
    /\ git.pushed = [commits |-> 0, tags |-> {}]

\* ------------------------------------------------------------------------
\* Properties of the topic update
\* ------------------------------------------------------------------------

\* the topics end_initial_dev is to leave
AdvancedTopics == (gh.topics \cup {"available-on-pypi"}) \ {"work-in-progress"}

\* the PUT requests among the requests of a call
Puts(cs) == {i \in DOMAIN cs : cs[i][1] = "PUT"}

\* C21: end_initial_dev that raises nothing leaves the topics of the
\* repository equal to the topics before plus available-on-pypi minus
\* work-in-progress, every other topic kept; it makes a PUT request, one and
\* with that set, only when that set differs from the topics before, also
\* when it fails; and called again right after, it makes no PUT.
TopicsAdvanced ==
    [][Calling("end_initial_dev") =>
           /\ err' = "" => gh.topics' = AdvancedTopics
           /\ err' # "" => gh.topics' = gh.topics
           /\ \A i \in Puts(calls') :
                  /\ calls'[i][3] = AdvancedTopics
                  /\ AdvancedTopics # gh.topics
                  /\ Puts(calls') = {i}
           /\ (err' = "" /\ AdvancedTopics # gh.topics) => Puts(calls') # {}
           /\ (last.name = "end_initial_dev" /\ err = "") =>
                  Puts(calls') = {}]_vars

\* the topics were advanced by a PUT and python was kept
TopicsPut ==
    /\ last.name = "end_initial_dev"
    /\ err = ""
    /\ Puts(calls) # {}
    /\ gh.topics = {"python", "available-on-pypi"}

\* ------------------------------------------------------------------------
\* Properties of get_commit_years
\* ------------------------------------------------------------------------

\* C22: the list get_commit_years returns is strictly ascending, so without
\* duplicates, and holds the years of the log; with include_now it holds
\* the current year as well, also for an empty log, and the clock was read
\* once; without include_now it holds the years of the log only and the
\* clock was not read.
CommitYearsAscending ==
    pc = "listed" =>
        /\ \A i \in 1..(Len(ret.val.years) - 1) :
               ret.val.years[i] < ret.val.years[i + 1]
        /\ arg[2] =>
               /\ SeqToSet(ret.val.years)
                      = log_years(arg[1]) \cup {YearOf(clock)}
               /\ ret.val.reads = 1
        /\ ~arg[2] =>
               /\ SeqToSet(ret.val.years) = log_years(arg[1])
               /\ ret.val.reads = 0

\* a log with a year twice and without the current year, returned with it
YearsOfRepeatingLog ==
    /\ pc = "listed"
    /\ arg[2]
    /\ Len(arg[1]) = 3
    /\ ret.val.years = <<BaseYear - 1, YearOf(clock)>>

\* ------------------------------------------------------------------------
\* Properties of the removal of a changelog
\* ------------------------------------------------------------------------

\* C23: after set_changelog(None) of a variant, get_changelog of the same
\* variant returns None, whichever candidate files there were; and where
\* there was none, set_changelog(None) changes no file.
UnsetThenAbsent ==
    [][/\ (Calling("set_changelog") /\ arg'[2] = None) =>
              /\ err' = ""
              /\ get_changelog(fs', arg'[1]) = None
              /\ get_changelog(fs, arg'[1]) = None => fs' = fs
       /\ (/\ last.name = "set_changelog"
           /\ arg[2] = None
           /\ Calling("get_changelog")
           /\ arg'[1] = arg[1]) => ret'.val = None]_vars

\* both root candidates are there
BothRootChangelogs ==
    fs.chlog["CHANGELOG.md"] # None /\ fs.chlog["CHANGELOG.rst"] # None

\* C23, as the code has it: set_changelog(None) that returns has removed
\* the first candidate of the variant that exists, and no other file.  With
\* at most one candidate there, get_changelog of the variant then returns
\* None; with CHANGELOG.md and CHANGELOG.rst both there, CHANGELOG.rst
\* stays and get_changelog returns its document; with no candidate there,
\* nothing changes.
UnsetRemovesFirst ==
    [][(Calling("set_changelog") /\ arg'[2] = None /\ err' = "") =>
           /\ fs.chlog' = [fs.chlog EXCEPT ![WriteTarget(arg'[1])] = None]
           /\ \A f \in DOMAIN fs \ {"chlog"} : fs'[f] = fs[f]
           /\ get_changelog(fs, arg'[1]) = None => fs' = fs
           /\ (arg'[1] \/ ~BothRootChangelogs) =>
                  get_changelog(fs', arg'[1]) = None
           /\ (~arg'[1] /\ BothRootChangelogs) =>
                  get_changelog(fs', FALSE)
                      = Some(ChangelogLoad(fs.chlog["CHANGELOG.rst"][1]))]_vars

\* the root changelog was removed where both candidates were, and
\* CHANGELOG.rst is left
RstLeftBehind ==
    /\ last.name = "set_changelog"
    /\ arg = <<FALSE, None>>
    /\ err = ""
    /\ fs.chlog["CHANGELOG.md"] = None
    /\ fs.chlog["CHANGELOG.rst"] # None

\* ------------------------------------------------------------------------
\* Properties of the version over a run
\* ------------------------------------------------------------------------

\* the version a tag or a release is named after
Named(name) == Tail(name)

\* Project.version and the __version__ line agree
VersionDeclared == proj.version = DeclaredVersion(fs.initfile)

\* the tag and the release of the run are of the Project's version, from
\* commit_version until begin_dev
TagOfVersion ==
    /\ Cardinality(git.tags) <= 1
    /\ Len(gh.releases) <= 1
    /\ \A t \in git.tags :
           /\ \A i \in DOMAIN gh.releases : gh.releases[i].tag_name = t.name
           /\ pc \in {"mkghrelease", "upload", "begin_dev"} =>
                  t.name = TagName(proj.version)
    /\ gh.releases # <<>> => git.tags # {}

\* the version tagged is final: valid, with no prerelease and no dev part
TagIsFinal ==
    \A t \in git.tags :
        /\ Version(Named(t.name)).valid
        /\ ~is_prerelease(Version(Named(t.name)))

\* C24: in a run only end_dev and begin_dev change the version, so the tag
\* commit_version makes, the tag mkghrelease reads and the tag_name of the
\* release it creates all name the one version end_dev left, which has no
\* prerelease and no dev suffix; and between the phases Project.version and
\* the version file agree.
OneVersionPerRun ==
    /\ [](VersionDeclared /\ TagOfVersion /\ TagIsFinal)
    /\ [][(pc \notin {"end_dev", "begin_dev"}) =>
              proj.version' = proj.version]_vars

\* ------------------------------------------------------------------------
\* Properties of the preconditions of upload
\* ------------------------------------------------------------------------

\* C25, as the claim has it: upload raises AssertionError for a precondition
\* only, no assets or no release_upload_url, and before anything is sent:
\* the package index, the file storage and the release hold what they held
\* and no command or request was made; upload called without assets raises
\* it.
UploadFailsBeforeSending ==
    [][Calling("upload") =>
           /\ proj.assets = <<>> => err' = "AssertionError"
           /\ err' = "AssertionError" =>
                  /\ proj.assets = <<>> \/ proj.release_upload_url = None
                  /\ calls' = <<>>
                  /\ pypi' = pypi
                  /\ dropbox' = dropbox
                  /\ gh' = gh]_vars

\* C25, as the code has it: upload called without assets raises
\* AssertionError and sends nothing anywhere.  Called with assets and
\* without release_upload_url, it first runs the upload to the package
\* index and the upload to the file storage; it raises AssertionError only
\* after both went through and hold every file, and before any post to
\* GitHub, where nothing changes.
UploadChecksTargetLast ==
    [][Calling("upload") =>
           /\ proj.assets = <<>> =>
                  /\ err' = "AssertionError"
                  /\ calls' = <<>>
                  /\ pypi' = pypi
                  /\ dropbox' = dropbox
                  /\ gh' = gh
           /\ (proj.assets # <<>> /\ proj.release_upload_url = None) =>
                  /\ err' # ""
                  /\ gh' = gh
                  /\ calls' # <<>>
                  /\ calls'[1] = <<"twine upload", proj.assets \o proj.assets_asc>>
                  /\ \A i \in DOMAIN calls' : calls'[i][1] # "POST"
                  /\ err' = "AssertionError" =>
                         /\ Len(calls') = 2
                         /\ calls'[2][1] = "dropbox_uploader upload"
                         /\ AllFiles \subseteq pypi'
                         /\ AllFiles \subseteq dropbox']_vars

\* upload raised for want of a release after the index and the storage got
\* the files
SentBeforeRefused ==
    /\ last.name = "upload"
    /\ err = "AssertionError"
    /\ proj.assets # <<>>
    /\ proj.release_upload_url = None
    /\ AllFiles \subseteq pypi
    /\ AllFiles \subseteq dropbox
    /\ gh.relAssets = {}

====
